---------------------------- MODULE Spec2Model ----------------------------
(***************************************************************************)
(* Model of the order-book replay core of eurex-mms-liq-data-demo:         *)
(*   - MultiLevelBook / MultiLevelState (src/src/eurex_liquidity/          *)
(*     orderbook_multi.py): the per-instrument ladder and its snapshots;   *)
(*   - the main loop of scripts/parse_and_l5.py: decode, apply, snapshot   *)
(*     on change, buffer, flush sorted chunks, batched merge.              *)
(*                                                                         *)
(* Optional values (Python None) are sequences of length at most one:      *)
(* None is << >> and a present value v is << v >>.                         *)
(***************************************************************************)
EXTENDS Integers, Sequences, FiniteSets, TLC

VARIABLES
    max_levels,   \* MultiLevelBook.max_levels (args.levels in the pipeline)
    bids,         \* MultiLevelState.bids : level -> <<price, size>>
    asks,         \* MultiLevelState.asks : level -> <<price, size>>
    ts_ns,        \* MultiLevelState.ts_ns (optional)
    pc,           \* position of the caller's loop body
    evt,          \* the event being handled (tokens_to_event's result)
    returns,      \* values apply_event returned for evt, oldest first
    stored,       \* history: side -> level -> pair last written by an Upsert
    books,        \* main's books: security_id -> MultiLevelState
    snap,         \* the record this iteration appended to snapshots, if any
    last_emitted, \* history: security_id -> the record last appended for it
    solo,         \* reference: security_id -> the ladder of a run fed with that
                  \* instrument's events only
    solo_snap,    \* reference: what that run emitted on the last event
    phase,        \* where main stands: parse, batches, merged, cleaned, written,
                  \* done, aborted
    snapshots,    \* main's in-memory list of snapshot records
    chunk_files,  \* the chunk files written so far, each by its rows
    chunk_counter,
    merged_files, \* the merged_XXXX files written so far, each by its rows
    batch_start,  \* loop variable of the batched merge
    df,           \* the merged frame, once built
    parquet,      \* the rows of the final snapshot file, once written
    csv,          \* the rows of the final csv file, once written
    temp_dir,     \* whether the _temp_chunks directory and its files exist
    torn,         \* the kinds of file left half-written under their own name
    failed,       \* history: the kinds of file whose read or write raised
    status,       \* what main returned: 0, or 1 for an uncaught exception
    emitted,      \* history: every record appended to snapshots, in order
    l5_file,      \* the rows of the snapshot file the aggregators read
    result_df,    \* the metric records of aggregate_l5, once computed
    l1_result,    \* the rows aggregate_1s keeps, once computed
    di_file,      \* the decoded entries of the DI file aggregate_l5 counts
    line,         \* the DI line given to the tokenizer, a sequence of characters
    entries,      \* what extract_entry_tokens_from_di_line returned, once called
    tokens,       \* the token list given to tokens_to_event, once there is one
    mapping,      \* the DiMapping given to tokens_to_event
    decoded,      \* the outcome of tokens_to_event, once called
    values,       \* the field values the token list was written from, if any
    sample,       \* the lines read by inspect_schema, each by its entries
    inferred,     \* the outcome of inspect_schema, once run
    l1_state,     \* L1Book.state
    l1_before,    \* history: L1Book.state before the last call of apply_event
    l1_evt,       \* history: the event of that call
    l1_changed,   \* what that call returned, if there was one
    rm_merged,    \* the merged_*.parquet files the resume script finds, by rows
    current_files,\* resume script: super_batches, then current_files of the rounds
    rm_phase,     \* where the resume script stands: input, pairwise, written, done
    final_table,  \* the rows of the snapshot file the resume script wrote, if any
    rm_status,    \* what the resume script returned before writing, if it did
    seg_files,    \* segment -> the files and directories under seg_{seg}
    segments,     \* process_all_segments: the segments still to be processed
    skip_existing,\* process_all_segments: args.skip_existing of the running batch
    seg_args,     \* process_full_segment: args of the running process, if any
    seg_pc,       \* process_full_segment: the step main is about to run
    actual_max_depth, \* process_full_segment: actual_max_depth
    steps_run,    \* history: the steps the running process ran, with outcome
    exit_code,    \* segment -> what process_full_segment last returned for it
    succeeded,    \* history: the segments a process has returned 0 for
    batch_runs    \* how often process_all_segments was started

ladderVars == <<max_levels, bids, asks, ts_ns, pc, evt, returns, stored>>

pipeVars == <<books, snap, last_emitted, solo, solo_snap>>

mergeVars == <<phase, snapshots, chunk_files, chunk_counter, merged_files,
               batch_start, df, parquet, csv, temp_dir, torn, failed, status,
               emitted>>

\* What the file operations of main read and change besides the frames.
ioVars == <<csv, temp_dir, torn, failed, status>>

metricVars == <<l5_file, result_df, l1_result>>

countVars == <<di_file>>

\* What the ladder, pipeline, merge and metric steps never touch.
tokenizerVars == <<line, entries>>

decoderVars == <<tokens, mapping, decoded, values>>

inferVars == <<sample, inferred>>

l1Vars == <<l1_state, l1_before, l1_evt, l1_changed>>

resumeVars == <<rm_merged, current_files, rm_phase, final_table, rm_status>>

segmentVars == <<seg_files, segments, skip_existing, seg_args, seg_pc,
                 actual_max_depth, steps_run, exit_code, succeeded, batch_runs>>

auxVars == <<countVars, tokenizerVars, decoderVars, inferVars, l1Vars, resumeVars,
             segmentVars>>

\* The same without the variables of one part.
notCounts == <<tokenizerVars, decoderVars, inferVars, l1Vars, resumeVars,
    segmentVars>>

notTokenizer == <<countVars, decoderVars, inferVars, l1Vars, resumeVars,
    segmentVars>>

notDecoder == <<countVars, tokenizerVars, inferVars, l1Vars, resumeVars,
    segmentVars>>

notInfer == <<countVars, tokenizerVars, decoderVars, l1Vars, resumeVars,
    segmentVars>>

notL1 == <<countVars, tokenizerVars, decoderVars, inferVars, resumeVars,
    segmentVars>>

notResume == <<countVars, tokenizerVars, decoderVars, inferVars, l1Vars,
    segmentVars>>

notSegment == <<countVars, tokenizerVars, decoderVars, inferVars, l1Vars,
                resumeVars>>

vars == <<ladderVars, pipeVars, mergeVars, metricVars, auxVars>>

-----------------------------------------------------------------------------
(* Optional values *)

None == << >>

Some(v) == << v >>

Val(o) == o[1]

-----------------------------------------------------------------------------
(* Bounds and input domains *)

\* Largest timestamp an event carries.
MaxTs == 2

\* The depth the single ladder is built with (MultiLevelBook(max_levels=...)).
LadderDepths == {1}

Prices == {10, 11}

Sizes == {5}

\* md_update_action codes: 0 New, 1 Change, 2 Delete, 5 Overlay; 3 stands for
\* every other code of the feed.
Actions == {None, Some(0), Some(1), Some(2), Some(3), Some(5)}

\* entry_type: 0 bid, 1 ask, 2 stands for every other entry type.
EntryTypes == {None, Some(0), Some(1), Some(2)}

LevelsUpTo(n) == {None} \cup {Some(l) : l \in 0..n}

OptPrices == {None} \cup {Some(p) : p \in Prices}

OptSizes == {None} \cup {Some(s) : s \in Sizes}

OptTs == {None} \cup {Some(t) : t \in 1..MaxTs}

\* Every event the decoder can hand to a ladder of depth n: each field absent
\* or present, levels up to one past the deepest accepted one.
Events(n) ==
    [md_update_action : Actions,
     entry_type       : EntryTypes,
     price_level      : LevelsUpTo(n + 1),
     security_id      : {Some(1)},
     price            : OptPrices,
     size             : OptSizes,
     ts_ns            : OptTs]

NoEvent ==
    [md_update_action |-> None, entry_type |-> None, price_level |-> None,
     security_id |-> None, price |-> None, size |-> None, ts_ns |-> None]

-----------------------------------------------------------------------------
(* orderbook_multi.py *)

UPDATE_ACTIONS == {0, 1, 5}

DELETE_ACTION == 2

EmptyLevels == [l \in {} |-> <<0, 0>>]

\* MultiLevelState(): both maps empty, no timestamp.
MultiLevelState == [bids |-> EmptyLevels, asks |-> EmptyLevels, ts_ns |-> None]

\* dict.get(level): the entry, or None.
Get(m, level) == IF level \in DOMAIN m THEN Some(m[level]) ELSE None

\* m[level] = entry
SetItem(m, level, entry) ==
    [l \in (DOMAIN m) \cup {level} |-> IF l = level THEN entry ELSE m[l]]

\* del m[level]
DelItem(m, level) == [l \in (DOMAIN m) \ {level} |-> m[l]]

\* float(price) of a float and int(size) of an int: the decoder hands over a
\* float price and an int size, which both conversions return as they are.
ToFloat(p) == p

ToInt(s) == s

\* The acceptance test of apply_event (line 77).
MutRejectedNoDepth(e, maxl) ==
    \/ e.entry_type \notin {Some(0), Some(1)}
    \/ e.price_level = None

Rejected(e, maxl) ==
    \/ e.entry_type \notin {Some(0), Some(1)}
    \/ e.price_level = None
    \/ Val(e.price_level) > maxl

\* The body of one side's branch of "if act in UPDATE_ACTIONS" (lines 84-89,
\* 91-96): the map afterwards and whether it was written.
MutUpsertAlways(m, level, price, size) ==
    IF price # None /\ size # None
    THEN [map |-> SetItem(m, level, <<ToFloat(Val(price)), ToInt(Val(size))>>),
          changed |-> TRUE]
    ELSE [map |-> m, changed |-> FALSE]

MutUpsertOnlyIfAbsent(m, level, price, size) ==
    IF price # None /\ size # None /\ Get(m, level) = None
    THEN [map |-> SetItem(m, level, <<ToFloat(Val(price)), ToInt(Val(size))>>),
          changed |-> TRUE]
    ELSE [map |-> m, changed |-> FALSE]

Upsert(m, level, price, size) ==
    LET old_entry == Get(m, level)
    IN  IF price # None /\ size # None
        THEN LET new_entry == <<ToFloat(Val(price)), ToInt(Val(size))>>
             IN  IF old_entry # Some(new_entry)
                 THEN [map |-> SetItem(m, level, new_entry), changed |-> TRUE]
                 ELSE [map |-> m, changed |-> FALSE]
        ELSE [map |-> m, changed |-> FALSE]

\* One side's branch of "elif act == DELETE_ACTION" (lines 99-104).
MutDeleteZeroFill(m, level) ==
    IF level \in DOMAIN m
    THEN [map |-> SetItem(m, level, <<m[level][1], 0>>), changed |-> TRUE]
    ELSE [map |-> m, changed |-> FALSE]

Delete(m, level) ==
    IF level \in DOMAIN m
    THEN [map |-> DelItem(m, level), changed |-> TRUE]
    ELSE [map |-> m, changed |-> FALSE]

\* "if ts_ns is not None: self.state.ts_ns = int(ts_ns)" (lines 107-108).
MutUpdateTsOnChange(old_ts, e, changed) ==
    IF e.ts_ns # None /\ changed THEN Some(ToInt(Val(e.ts_ns))) ELSE old_ts

UpdateTs(old_ts, e, changed) ==
    IF e.ts_ns # None THEN Some(ToInt(Val(e.ts_ns))) ELSE old_ts

\* MultiLevelBook.apply_event on state st of a book of depth maxl: the state
\* afterwards and the value returned.
apply_event(st, maxl, e) ==
    IF Rejected(e, maxl)
    THEN [state |-> st, changed |-> FALSE]
    ELSE
        LET level == Val(e.price_level)
            et    == Val(e.entry_type)
            act   == e.md_update_action
            isUpd == act # None /\ Val(act) \in UPDATE_ACTIONS
            isDel == act # None /\ Val(act) = DELETE_ACTION
            bidR  == IF isUpd /\ et = 0 THEN Upsert(st.bids, level, e.price, e.size)
                     ELSE IF (~isUpd) /\ isDel /\ et = 0 THEN Delete(st.bids, level)
                     ELSE [map |-> st.bids, changed |-> FALSE]
            askR  == IF isUpd /\ et # 0 THEN Upsert(st.asks, level, e.price, e.size)
                     ELSE IF (~isUpd) /\ isDel /\ et = 1 THEN Delete(st.asks, level)
                     ELSE [map |-> st.asks, changed |-> FALSE]
            chg   == bidR.changed \/ askR.changed
        IN  [state   |-> [bids  |-> bidR.map,
                          asks  |-> askR.map,
                          ts_ns |-> UpdateTs(st.ts_ns, e, chg)],
             changed |-> chg]

\* MultiLevelState.get_best_bid / get_best_ask: the entry at the smallest key.
MinKey(m) == CHOOSE l \in DOMAIN m : \A k \in DOMAIN m : l <= k

MaxKey(m) == CHOOSE l \in DOMAIN m : \A k \in DOMAIN m : l >= k

MutBestAtMaxKey(m) == IF DOMAIN m = {} THEN None ELSE Some(m[MaxKey(m)])

get_best(m) == IF DOMAIN m = {} THEN None ELSE Some(m[MinKey(m)])

get_best_bid(st) == get_best(st.bids)

get_best_ask(st) == get_best(st.asks)

\* MultiLevelBook.snapshot_l1
snapshot_l1(st) ==
    LET best_bid == get_best_bid(st)
        best_ask == get_best_ask(st)
    IN  [ts_ns    |-> st.ts_ns,
         best_bid |-> IF best_bid # None THEN Some(Val(best_bid)[1]) ELSE None,
         bid_size |-> IF best_bid # None THEN Some(Val(best_bid)[2]) ELSE None,
         best_ask |-> IF best_ask # None THEN Some(Val(best_ask)[1]) ELSE None,
         ask_size |-> IF best_ask # None THEN Some(Val(best_ask)[2]) ELSE None]

\* sorted(m.keys())
RECURSIVE sorted(_)
sorted(S) ==
    IF S = {} THEN << >>
    ELSE LET lo == CHOOSE x \in S : \A y \in S : x <= y
         IN  <<lo>> \o sorted(S \ {lo})

\* s[:n] for n >= 0
Take(s, n) == SubSeq(s, 1, IF n < Len(s) THEN n ELSE Len(s))

\* The list one side contributes to get_levels_snapshot (lines 47-56).
MutSideLevelsUnsliced(m, n) ==
    LET levels == sorted(DOMAIN m)
    IN  [i \in 1..Len(levels) |->
            [level |-> levels[i], price |-> m[levels[i]][1], size |-> m[levels[i]][2]]]

SideLevels(m, n) ==
    LET levels == Take(sorted(DOMAIN m), n)
    IN  [i \in 1..Len(levels) |->
            [level |-> levels[i], price |-> m[levels[i]][1], size |-> m[levels[i]][2]]]

\* MultiLevelState.get_levels_snapshot(max_levels=n)
get_levels_snapshot(st, n) ==
    [ts_ns |-> st.ts_ns, bids |-> SideLevels(st.bids, n), asks |-> SideLevels(st.asks, n)]

\* The depth snapshot_l5 passes to get_levels_snapshot and the number of
\* slots per side it writes (lines 127 and 133).
L5 == 5

\* The flattened columns of one side (lines 139-151): slot i holds the i-th
\* entry of the list, or None.
SlotPrice(list, i) == IF i <= Len(list) THEN Some(list[i].price) ELSE None

SlotSize(list, i) == IF i <= Len(list) THEN Some(list[i].size) ELSE None

\* MultiLevelBook.snapshot_l5
snapshot_l5(st) ==
    LET snapshot == get_levels_snapshot(st, L5)
    IN  [ts_ns     |-> snapshot.ts_ns,
         bid_price |-> [i \in 1..L5 |-> SlotPrice(snapshot.bids, i)],
         bid_size  |-> [i \in 1..L5 |-> SlotSize(snapshot.bids, i)],
         ask_price |-> [i \in 1..L5 |-> SlotPrice(snapshot.asks, i)],
         ask_size  |-> [i \in 1..L5 |-> SlotSize(snapshot.asks, i)]]

-----------------------------------------------------------------------------
(* A single ladder driven by a caller: decode an event, apply it, apply it *)
(* once more or go on to the next event.                                   *)

State == [bids |-> bids, asks |-> asks, ts_ns |-> ts_ns]

\* The buffer and the files of a run that has handled no snapshot.
CoreIdle ==
    /\ phase = "parse"
    /\ snapshots = << >>
    /\ chunk_files = << >>
    /\ chunk_counter = 0
    /\ merged_files = << >>
    /\ batch_start = 0
    /\ df = None
    /\ parquet = None
    /\ csv = None
    /\ temp_dir = TRUE
    /\ torn = {}
    /\ failed = {}
    /\ status = None
    /\ emitted = << >>
    /\ l5_file = << >>
    /\ result_df = None
    /\ l1_result = None

\* The scripts and functions outside a run, each not yet called; part names
\* the one that the specification at hand starts itself.
\* The segments of the data set (--segments of process_all_segments.py).
SegmentIds == {1, 2}

AuxIdleExcept(part) ==
    /\ IF part = "counts" THEN TRUE ELSE di_file = << >>
    /\ IF part = "tokenizer" THEN TRUE ELSE line = << >> /\ entries = None
    /\ IF part = "decoder" THEN TRUE
       ELSE tokens = None /\ mapping = None /\ decoded = None /\ values = None
    /\ IF part = "infer" THEN TRUE ELSE sample = << >> /\ inferred = None
    /\ IF part = "l1" THEN TRUE
       ELSE /\ l1_state = [best_bid |-> None, bid_size |-> None, best_ask |-> None,
                           ask_size |-> None, ts_ns |-> None]
            /\ l1_before = l1_state
            /\ l1_evt = None
            /\ l1_changed = None
    /\ IF part = "resume" THEN TRUE
       ELSE /\ rm_merged = << >>
            /\ current_files = << >>
            /\ rm_phase = "input"
            /\ final_table = None
            /\ rm_status = None
    /\ seg_files = [s \in SegmentIds |-> {}]
    /\ segments = << >>
    /\ skip_existing = FALSE
    /\ seg_args = None
    /\ seg_pc = "idle"
    /\ actual_max_depth = None
    /\ steps_run = << >>
    /\ exit_code = [s \in SegmentIds |-> None]
    /\ succeeded = {}
    /\ batch_runs = 0

MergeIdle == CoreIdle /\ AuxIdleExcept("none")

NoWrites == [s \in {0, 1} |-> EmptyLevels]

InitLadder ==
    /\ max_levels \in LadderDepths
    /\ bids = EmptyLevels
    /\ asks = EmptyLevels
    /\ ts_ns = None
    /\ pc = "idle"
    /\ evt = NoEvent
    /\ returns = << >>
    /\ stored = NoWrites
    /\ books = << >>
    /\ snap = None
    /\ last_emitted = << >>
    /\ solo = << >>
    /\ solo_snap = None
    /\ MergeIdle

\* evt = tokens_to_event(entry, mapping)
Receive ==
    /\ pc = "idle"
    /\ \E e \in Events(max_levels) : evt' = e
    /\ pc' = "decoded"
    /\ returns' = << >>
    /\ UNCHANGED <<max_levels, bids, asks, ts_ns, stored>>
    /\ UNCHANGED <<pipeVars, mergeVars, metricVars, auxVars>>

\* changed = book.apply_event(evt)
Apply ==
    /\ pc = "decoded"
    /\ LET r == apply_event(State, max_levels, evt)
       IN  /\ bids' = r.state.bids
           /\ asks' = r.state.asks
           /\ ts_ns' = r.state.ts_ns
           /\ returns' = <<r.changed>>
    /\ pc' = "applied"
    /\ UNCHANGED <<max_levels, evt, stored>>
    /\ UNCHANGED <<pipeVars, mergeVars, metricVars, auxVars>>

\* The same event handed to apply_event a second time.
Reapply ==
    /\ pc = "applied"
    /\ LET r == apply_event(State, max_levels, evt)
       IN  /\ bids' = r.state.bids
           /\ asks' = r.state.asks
           /\ ts_ns' = r.state.ts_ns
           /\ returns' = Append(returns, r.changed)
    /\ pc' = "reapplied"
    /\ UNCHANGED <<max_levels, evt, stored>>
    /\ UNCHANGED <<pipeVars, mergeVars, metricVars, auxVars>>

\* The loop goes on to the next entry.
Continue ==
    /\ pc \in {"applied", "reapplied"}
    /\ pc' = "idle"
    /\ evt' = NoEvent
    /\ returns' = << >>
    /\ UNCHANGED <<max_levels, bids, asks, ts_ns, stored>>
    /\ UNCHANGED <<pipeVars, mergeVars, metricVars, auxVars>>

NextLadder == Receive \/ Apply \/ Reapply \/ Continue

SpecLadder == InitLadder /\ [][NextLadder]_vars

-----------------------------------------------------------------------------
(* Properties of the single ladder.  The vocabulary below is written from  *)
(* the statements, not from apply_event.                                   *)

\* The step in which apply_event handles evt for the first time.
ApplyStep == pc = "decoded" /\ pc' = "applied"

\* The step in which the same event is handled again.
ReapplyStep == pc = "applied" /\ pc' = "reapplied"

SideIsBidOrAsk(e) == e.entry_type = Some(0) \/ e.entry_type = Some(1)

LevelWithinDepth(e) == e.price_level # None /\ Val(e.price_level) <= max_levels

AcceptedEvent(e) == SideIsBidOrAsk(e) /\ LevelWithinDepth(e)

IsUpsertAction(e) == e.md_update_action \in {Some(0), Some(1), Some(5)}

IsDeleteAction(e) == e.md_update_action = Some(2)

HasPair(e) == e.price # None /\ e.size # None

PairOf(e) == <<Val(e.price), Val(e.size)>>

\* The map of the side evt names, before and after the step.
SideBefore(e) == IF e.entry_type = Some(0) THEN bids ELSE asks

SideAfter(e) == IF e.entry_type = Some(0) THEN bids' ELSE asks'

OtherSideKept(e) == IF e.entry_type = Some(0) THEN asks' = asks ELSE bids' = bids

AbsentOrDifferent(e) ==
    \/ Val(e.price_level) \notin DOMAIN SideBefore(e)
    \/ SideBefore(e)[Val(e.price_level)] # PairOf(e)

\* C2: an accepted New/Change/Overlay event with price and size present
\* leaves (price, size) at (side, level) and returns changed = true exactly
\* when the level was absent or held another pair; with price or size absent
\* both maps are kept and changed = false.
C2_UpsertSetsLevel ==
    [][(ApplyStep /\ AcceptedEvent(evt) /\ IsUpsertAction(evt)) =>
          IF HasPair(evt)
          THEN /\ Val(evt.price_level) \in DOMAIN SideAfter(evt)
               /\ SideAfter(evt)[Val(evt.price_level)] = PairOf(evt)
               /\ returns'[1] = AbsentOrDifferent(evt)
          ELSE /\ bids' = bids
               /\ asks' = asks
               /\ returns'[1] = FALSE]_vars

\* C2 witness: an accepted Upsert wrote its pair and reported the change.
C2_Witness ==
    /\ pc = "applied"
    /\ AcceptedEvent(evt) /\ IsUpsertAction(evt) /\ HasPair(evt)
    /\ evt.entry_type = Some(1)
    /\ evt.price = Some(11)
    /\ asks[Val(evt.price_level)] = PairOf(evt)
    /\ returns = <<TRUE>>

\* C3: an accepted Delete removes the level: the side's map is the previous
\* one without that level, the other side is kept, a snapshot taken
\* afterwards lists no entry for the level on that side, and changed = true
\* exactly when the level held an entry.
C3_DeleteRemovesLevel ==
    [][(ApplyStep /\ AcceptedEvent(evt) /\ IsDeleteAction(evt)) =>
          LET lvl == Val(evt.price_level)
              after == [bids |-> bids', asks |-> asks', ts_ns |-> ts_ns']
              listed(n) == IF evt.entry_type = Some(0)
                           THEN get_levels_snapshot(after, n).bids
                           ELSE get_levels_snapshot(after, n).asks
          IN  /\ DOMAIN SideAfter(evt) = DOMAIN SideBefore(evt) \ {lvl}
              /\ \A l \in DOMAIN SideAfter(evt) : SideAfter(evt)[l] = SideBefore(evt)[l]
              /\ OtherSideKept(evt)
              /\ \A n \in 0..(max_levels + 2) :
                     \A i \in 1..Len(listed(n)) : listed(n)[i].level # lvl
              /\ returns'[1] = (lvl \in DOMAIN SideBefore(evt))]_vars

\* C3 witness: a Delete took level 0 away from the bid side and left level 1.
C3_Witness ==
    /\ pc = "applied"
    /\ AcceptedEvent(evt) /\ IsDeleteAction(evt)
    /\ evt.entry_type = Some(0) /\ evt.price_level = Some(0)
    /\ DOMAIN bids = {1}
    /\ returns = <<TRUE>>

\* C4: an event whose side is neither bid nor ask, whose level is absent or
\* whose level exceeds the configured depth returns changed = false and
\* leaves both maps as they were.
C4_RejectedIsNoOp ==
    [][(ApplyStep /\ (~SideIsBidOrAsk(evt) \/ ~LevelWithinDepth(evt))) =>
          /\ returns'[1] = FALSE
          /\ bids' = bids
          /\ asks' = asks]_vars

\* C4 witness: a New event one level past the depth met a ladder that holds
\* entries, and was refused.
C4_Witness ==
    /\ pc = "applied"
    /\ SideIsBidOrAsk(evt) /\ IsUpsertAction(evt) /\ HasPair(evt)
    /\ evt.price_level = Some(max_levels + 1)
    /\ DOMAIN bids # {} /\ DOMAIN asks # {}
    /\ returns = <<FALSE>>

\* C5 as stated: after apply_event the last-seen timestamp is the event's
\* whenever the event carries one, rejected events included.
C5_TsFollowsEveryEvent ==
    [][ApplyStep =>
          ts_ns' = (IF evt.ts_ns # None THEN evt.ts_ns ELSE ts_ns)]_vars

\* C5 amended: the last-seen timestamp becomes the event's when the event is
\* accepted and carries one, whatever its action and whether or not changed
\* is true; a rejected event and an event without a timestamp leave it as
\* it was.
C5_TsFollowsAcceptedEvent ==
    [][ApplyStep =>
          ts_ns' = (IF AcceptedEvent(evt) /\ evt.ts_ns # None
                    THEN evt.ts_ns ELSE ts_ns)]_vars

\* C5 witness: an accepted event that changed nothing moved the timestamp.
C5_Witness ==
    /\ pc = "applied"
    /\ AcceptedEvent(evt)
    /\ returns = <<FALSE>>
    /\ evt.ts_ns = Some(1)
    /\ ts_ns = Some(1)
    /\ DOMAIN bids # {}

\* C6: a well-formed Upsert applied where its level is absent or holds
\* another pair returns true; the identical event applied again at once
\* returns false and leaves maps and timestamp as they were.
C6_UpsertIdempotent ==
    [][/\ (ApplyStep /\ AcceptedEvent(evt) /\ IsUpsertAction(evt) /\ HasPair(evt)
             /\ AbsentOrDifferent(evt)) => returns'[1] = TRUE
       /\ (ReapplyStep /\ AcceptedEvent(evt) /\ IsUpsertAction(evt) /\ HasPair(evt)) =>
             /\ returns'[2] = FALSE
             /\ bids' = bids
             /\ asks' = asks
             /\ ts_ns' = ts_ns]_vars

\* C6 witness: the same Upsert returned true, then false.
C6_Witness ==
    /\ pc = "reapplied"
    /\ AcceptedEvent(evt) /\ IsUpsertAction(evt) /\ HasPair(evt)
    /\ returns = <<TRUE, FALSE>>

-----------------------------------------------------------------------------
(* Replay of well-formed Upsert events in non-decreasing time order.       *)

WellFormedUpserts(n) ==
    {e \in Events(n) :
        /\ e.md_update_action \in {Some(0), Some(1), Some(5)}
        /\ e.entry_type \in {Some(0), Some(1)}
        /\ e.price_level # None /\ Val(e.price_level) <= n
        /\ e.price # None /\ e.size # None /\ e.ts_ns # None}

\* History: the pair the event carries becomes the one last written at its
\* (side, level).
Written(h, e) ==
    [h EXCEPT ![Val(e.entry_type)] =
        SetItem(@, Val(e.price_level), <<Val(e.price), Val(e.size)>>)]

\* One iteration of the replay loop: changed = book.apply_event(evt).
Replay ==
    /\ \E e \in WellFormedUpserts(max_levels) :
          /\ IF ts_ns = None THEN TRUE ELSE Val(e.ts_ns) >= Val(ts_ns)
          /\ LET r == apply_event(State, max_levels, e)
             IN  /\ bids' = r.state.bids
                 /\ asks' = r.state.asks
                 /\ ts_ns' = r.state.ts_ns
                 /\ returns' = <<r.changed>>
          /\ evt' = e
          /\ stored' = Written(stored, e)
    /\ pc' = "applied"
    /\ UNCHANGED max_levels
    /\ UNCHANGED <<pipeVars, mergeVars, metricVars, auxVars>>

NextReplay == Replay

SpecReplay == InitLadder /\ [][NextReplay]_vars

LowestWritten(h) == CHOOSE l \in DOMAIN h : \A k \in DOMAIN h : l <= k

BestIsLastWritten(h, price, size) ==
    IF DOMAIN h = {}
    THEN price = None /\ size = None
    ELSE /\ price = Some(h[LowestWritten(h)][1])
         /\ size = Some(h[LowestWritten(h)][2])

\* C8: after a replay of well-formed Upserts with non-decreasing timestamps
\* the best bid (ask) is the pair most recently written at the lowest level
\* written on that side, and is none exactly when nothing was written there.
C8_BestIsLowestLevel ==
    LET l1 == snapshot_l1(State)
    IN  /\ BestIsLastWritten(stored[0], l1.best_bid, l1.bid_size)
        /\ BestIsLastWritten(stored[1], l1.best_ask, l1.ask_size)
        /\ (get_best_bid(State) = None) = (DOMAIN stored[0] = {})
        /\ (get_best_ask(State) = None) = (DOMAIN stored[1] = {})

\* C8 witness: the bid side holds two levels with different pairs, level 0
\* rewritten by the last event; the ask side holds level 1 only.
C8_Witness ==
    /\ pc = "applied"
    /\ evt.entry_type = Some(0) /\ evt.price_level = Some(0)
    /\ evt.price = Some(11) /\ returns = <<TRUE>>
    /\ DOMAIN bids = {0, 1} /\ bids[1] = <<10, 5>>
    /\ DOMAIN asks = {1}
    /\ snapshot_l1(State).best_bid = Some(11)
    /\ snapshot_l1(State).best_ask = Some(asks[1][1])
    /\ ts_ns = Some(MaxTs)


-----------------------------------------------------------------------------
(* scripts/parse_and_l5.py, lines 82-107: one ladder per instrument, and a *)
(* snapshot record appended whenever apply_event reports a change.  The    *)
(* buffer the records go to is modelled further below.                     *)

\* A run's --levels argument with the instruments, prices and timestamps of
\* its feed.  The run of depth five and the run on two instruments keep to
\* one price and one timestamp.
PipelineConfigs ==
    { [levels |-> 1, secs |-> {1}, prices |-> Prices, times |-> 1..MaxTs],
      [levels |-> L5, secs |-> {1}, prices |-> {10}, times |-> {1}],
      [levels |-> 1, secs |-> {1, 2}, prices |-> {10}, times |-> {1}] }

\* The events the decoder hands to the loop in a run of depth n: New and
\* Delete on either side, levels up to one past the deepest accepted one, an
\* instrument of the feed or none.
PipeEvents(cfg) ==
    [md_update_action : {Some(0), Some(DELETE_ACTION)},
     entry_type       : {Some(0), Some(1)},
     price_level      : {Some(l) : l \in 0..(cfg.levels + 1)},
     security_id      : {None} \cup {Some(i) : i \in cfg.secs},
     price            : {Some(p) : p \in cfg.prices},
     size             : {Some(z) : z \in Sizes},
     ts_ns            : {Some(t) : t \in cfg.times}]

ConfigOf(n, secs) ==
    CHOOSE cfg \in PipelineConfigs : cfg.levels = n /\ cfg.secs = secs

\* The state before the first line of the feed of a run among cfgs.
InitRun(cfgs) ==
    /\ \E cfg \in cfgs :
          /\ max_levels = cfg.levels
          /\ books = [i \in cfg.secs |-> MultiLevelState]
          /\ last_emitted = [i \in cfg.secs |-> None]
          /\ solo = [i \in cfg.secs |-> MultiLevelState]
    /\ snap = None
    /\ solo_snap = None
    /\ bids = EmptyLevels
    /\ asks = EmptyLevels
    /\ ts_ns = None
    /\ pc = "idle"
    /\ evt = NoEvent
    /\ returns = << >>
    /\ stored = NoWrites
    /\ MergeIdle

\* snap = books[sec].snapshot_l5(); snap['security_id'] = sec;
\* snap['action'] = evt.get('md_update_action', 0)   (lines 104-106)
SnapRecord(st, sec, e) ==
    LET l5 == snapshot_l5(st)
    IN  [ts_ns       |-> l5.ts_ns,
         bid_price   |-> l5.bid_price,
         bid_size    |-> l5.bid_size,
         ask_price   |-> l5.ask_price,
         ask_size    |-> l5.ask_size,
         security_id |-> sec,
         action      |-> e.md_update_action]

\* One ladder held for every instrument.
MutBookShared(bs, sec) == bs[CHOOSE i \in DOMAIN bs : \A j \in DOMAIN bs : i <= j]

\* books[sec]: the defaultdict of line 40 keeps one MultiLevelBook per key.
BookOf(bs, sec) == bs[sec]

\* One iteration of "for entry in entries" (lines 90-107).  The reference
\* run of the entry's instrument takes the same entry on its own ladder.
ProcessEntry ==
    \E e \in PipeEvents(ConfigOf(max_levels, DOMAIN books)) :
        IF e.security_id = None
        THEN /\ snap' = None
             /\ solo_snap' = None
             /\ UNCHANGED <<books, last_emitted, solo>>
        ELSE LET sec == ToInt(Val(e.security_id))
                 r   == apply_event(BookOf(books, sec), max_levels, e)
                 own == apply_event(solo[sec], max_levels, e)
             IN  /\ books' = [books EXCEPT ![sec] = r.state]
                 /\ solo' = [solo EXCEPT ![sec] = own.state]
                 /\ solo_snap' = IF own.changed
                                 THEN Some(SnapRecord(own.state, sec, e))
                                 ELSE None
                 /\ IF r.changed
                    THEN /\ snap' = Some(SnapRecord(r.state, sec, e))
                         /\ last_emitted' = [last_emitted EXCEPT ![sec] = snap']
                    ELSE /\ snap' = None
                         /\ UNCHANGED last_emitted

NextPipeline == ProcessEntry /\ UNCHANGED <<ladderVars, mergeVars, metricVars, auxVars>>

\* The runs on a feed of one instrument.
InitPipeline == InitRun({cfg \in PipelineConfigs : cfg.secs = {1}})

SpecPipeline == InitPipeline /\ [][NextPipeline]_vars

\* The runs on a feed of several instruments.
InitInstruments == InitRun({cfg \in PipelineConfigs : cfg.secs # {1}})

SpecInstruments == InitInstruments /\ [][NextPipeline]_vars

\* The i-th lowest occupied level of a side, if the side has that many.
RECURSIVE NthLowest(_, _)
NthLowest(m, i) ==
    IF DOMAIN m = {} THEN None
    ELSE LET lo == CHOOSE l \in DOMAIN m : \A k \in DOMAIN m : l <= k
         IN  IF i = 1 THEN Some(m[lo])
             ELSE NthLowest([k \in (DOMAIN m) \ {lo} |-> m[k]], i - 1)

SideShape(m, price, size, n) ==
    /\ DOMAIN price = 1..n
    /\ DOMAIN size = 1..n
    /\ \A i \in 1..n :
          LET entry == NthLowest(m, i)
          IN  IF entry = None
              THEN price[i] = None /\ size[i] = None
              ELSE price[i] = Some(Val(entry)[1]) /\ size[i] = Some(Val(entry)[2])

\* C9: the record emitted under --levels N carries, per side, the N lowest
\* occupied levels in rank order in slots 1..N and nulls in the slots that
\* remain up to N.
C9_SnapshotHasConfiguredDepth ==
    snap # None =>
        LET rec == Val(snap)
            st  == books[rec.security_id]
        IN  /\ SideShape(st.bids, rec.bid_price, rec.bid_size, max_levels)
            /\ SideShape(st.asks, rec.ask_price, rec.ask_size, max_levels)

PriceSizeFields(rec) == <<rec.bid_price, rec.bid_size, rec.ask_price, rec.ask_size>>

\* The price and size fields of the all-null view: five null slots a column.
AllNullFields ==
    LET nulls == [i \in 1..L5 |-> None] IN <<nulls, nulls, nulls, nulls>>

\* C10: every record emitted for an instrument differs in a price or size
\* field from the record emitted before it for that instrument, the first
\* one from the all-null view.
C10_EmittedOnlyOnObservableChange ==
    [][snap' # None =>
          LET rec  == Val(snap')
              prev == last_emitted[rec.security_id]
          IN  PriceSizeFields(rec) #
                  (IF prev = None THEN AllNullFields ELSE PriceSizeFields(Val(prev)))]_vars

\* The instruments whose ladder, last record or reference ladder a step
\* changed.
Touched ==
    {i \in DOMAIN books : \/ books'[i] # books[i]
                          \/ last_emitted'[i] # last_emitted[i]
                          \/ solo'[i] # solo[i]}

\* C16: a step changes the ladder of the entry's instrument at most, and
\* emits for that instrument only; every ladder equals the one of the run
\* fed with its instrument's events alone, and the record emitted is the
\* one that run emits.
C16_InstrumentsIndependent ==
    [][/\ Cardinality(Touched) <= 1
       /\ snap' # None => Touched \subseteq {Val(snap').security_id}
       /\ books' = solo'
       /\ snap' = solo_snap']_vars

\* C16 witness: both instruments hold a level, the two ladders differ, and
\* the last entry emitted a record for instrument 2.
C16_Witness ==
    /\ DOMAIN books = {1, 2}
    /\ books[1].bids # EmptyLevels
    /\ books[2].asks # EmptyLevels
    /\ books[1] # books[2]
    /\ snap # None
    /\ Val(snap).security_id = 2
    /\ last_emitted[1] # None

-----------------------------------------------------------------------------
(* scripts/parse_and_l5.py, lines 41-46 and 107-198: the snapshot buffer,  *)
(* the sorted chunks and their merge.  A record is known here by its sort  *)
(* key (ts_ns, security_id) and by id, its place in the order of emission, *)
(* which stands for its other columns.                                     *)

\* Buffer capacity and merge fan-in, scaled down from the 50000 and 20 of
\* lines 44 and 132.
CHUNK_SIZE == 2

BATCH_SIZE == 2

\* The most snapshots a run emits.
MaxSnaps == 5

MergeSecs == {1, 2}

\* (ts_ns, security_id) of a comes before that of b, or equals it.
KeyLeq(a, b) ==
    \/ a.ts_ns < b.ts_ns
    \/ a.ts_ns = b.ts_ns /\ a.security_id <= b.security_id

KeyLess(a, b) ==
    \/ a.ts_ns < b.ts_ns
    \/ a.ts_ns = b.ts_ns /\ a.security_id < b.security_id

\* rows with row x put behind every row whose key is at most x's.
InsertRow(rows, x) ==
    LET n == Cardinality({j \in 1..Len(rows) : KeyLeq(rows[j], x)})
    IN  SubSeq(rows, 1, n) \o <<x>> \o SubSeq(rows, n + 1, Len(rows))

\* rows with row x put before every row whose key is at least x's.
InsertRowFirst(rows, x) ==
    LET n == Cardinality({j \in 1..Len(rows) : KeyLess(rows[j], x)})
    IN  SubSeq(rows, 1, n) \o <<x>> \o SubSeq(rows, n + 1, Len(rows))

RECURSIVE MutSortTiesReversed(_)
MutSortTiesReversed(rows) ==
    IF rows = << >> THEN << >>
    ELSE InsertRowFirst(MutSortTiesReversed(SubSeq(rows, 1, Len(rows) - 1)),
                        rows[Len(rows)])

RECURSIVE StableSort(_)
StableSort(rows) ==
    IF rows = << >> THEN << >>
    ELSE InsertRow(StableSort(SubSeq(rows, 1, Len(rows) - 1)), rows[Len(rows)])

\* df.sort_values(['ts_ns', 'security_id']).reset_index(drop=True): pandas
\* sorts on several columns with a stable lexsort, so rows of equal key keep
\* their order.
sort_values(rows) == StableSort(rows)

\* pd.concat(frames, ignore_index=True)
RECURSIVE concat(_)
concat(frames) ==
    IF frames = << >> THEN << >>
    ELSE concat(SubSeq(frames, 1, Len(frames) - 1)) \o frames[Len(frames)]

MutFlushUnsorted(snaps, files, counter) ==
    IF snaps = << >>
    THEN [chunk_files |-> files, chunk_counter |-> counter]
    ELSE [chunk_files |-> Append(files, snaps), chunk_counter |-> counter + 1]

\* flush_snapshots_to_disk (lines 63-80): the chunk files and the counter
\* afterwards; the buffer afterwards is empty.
flush_snapshots_to_disk(snaps, files, counter) ==
    IF snaps = << >>
    THEN [chunk_files |-> files, chunk_counter |-> counter]
    ELSE [chunk_files |-> Append(files, sort_values(snaps)),
          chunk_counter |-> counter + 1]

\* No run of the pipeline under way: an empty ladder and no book.
PipelineIdle ==
    /\ max_levels = L5
    /\ books = << >>
    /\ snap = None
    /\ last_emitted = << >>
    /\ solo = << >>
    /\ solo_snap = None
    /\ bids = EmptyLevels
    /\ asks = EmptyLevels
    /\ ts_ns = None
    /\ pc = "idle"
    /\ evt = NoEvent
    /\ returns = << >>
    /\ stored = NoWrites

InitMerge ==
    /\ MergeIdle
    /\ PipelineIdle

\* snapshots.append(snap), and the flush of a full buffer (lines 107-111).
AppendSnapshot ==
    /\ phase = "parse"
    /\ Len(emitted) < MaxSnaps
    /\ \E t \in 1..MaxTs, sec \in MergeSecs :
          LET rec == [ts_ns |-> t, security_id |-> sec, id |-> Len(emitted) + 1]
              buf == Append(snapshots, rec)
              fl  == flush_snapshots_to_disk(buf, chunk_files, chunk_counter)
          IN  /\ emitted' = Append(emitted, rec)
              /\ IF Len(buf) >= CHUNK_SIZE
                 THEN /\ snapshots' = << >>
                      /\ chunk_files' = fl.chunk_files
                      /\ chunk_counter' = fl.chunk_counter
                 ELSE /\ snapshots' = buf
                      /\ UNCHANGED <<chunk_files, chunk_counter>>
    /\ UNCHANGED <<phase, merged_files, batch_start, df, parquet, ioVars>>

\* The input is exhausted (lines 113-136 and 164-174): the remainder is
\* flushed; without chunks main returns; with at most BATCH_SIZE chunks they
\* are loaded and sorted at once; with more the batched merge begins.
EndOfInput ==
    /\ phase = "parse"
    /\ LET fl == flush_snapshots_to_disk(snapshots, chunk_files, chunk_counter)
       IN  /\ snapshots' = << >>
           /\ chunk_files' = fl.chunk_files
           /\ chunk_counter' = fl.chunk_counter
           /\ IF fl.chunk_files = << >>
              THEN /\ phase' = "done"
                   /\ status' = Some(0)
                   /\ UNCHANGED <<df, batch_start>>
              ELSE IF Len(fl.chunk_files) > BATCH_SIZE
              THEN /\ phase' = "batches"
                   /\ batch_start' = 0
                   /\ UNCHANGED <<df, status>>
              ELSE /\ phase' = "merged"
                   /\ df' = Some(sort_values(concat(fl.chunk_files)))
                   /\ UNCHANGED <<batch_start, status>>
    /\ UNCHANGED <<merged_files, parquet, csv, temp_dir, torn, failed, emitted>>

\* The files of one batch: chunk_files[batch_start:batch_end] (lines 139-140).
MutBatchFilesShort(files, start) ==
    SubSeq(files, start + 1,
           IF start + BATCH_SIZE - 1 < Len(files) THEN start + BATCH_SIZE - 1 ELSE Len(files))

BatchFiles(files, start) ==
    SubSeq(files, start + 1,
           IF start + BATCH_SIZE < Len(files) THEN start + BATCH_SIZE ELSE Len(files))

\* One round of the batch loop (lines 138-156).
MergeBatch ==
    /\ phase = "batches"
    /\ batch_start < Len(chunk_files)
    /\ LET batch_df == sort_values(concat(BatchFiles(chunk_files, batch_start)))
       IN  merged_files' = Append(merged_files, batch_df)
    /\ batch_start' = batch_start + BATCH_SIZE
    /\ UNCHANGED <<phase, snapshots, chunk_files, chunk_counter, df, parquet,
                   ioVars, emitted>>

\* The final merge of all batches (lines 161-163).
FinalMerge ==
    /\ phase = "batches"
    /\ batch_start >= Len(chunk_files)
    /\ df' = Some(sort_values(concat(merged_files)))
    /\ phase' = "merged"
    /\ UNCHANGED <<snapshots, chunk_files, chunk_counter, merged_files,
                   batch_start, parquet, ioVars, emitted>>

\* An exception leaves main: the process ends with status 1.  A write that
\* raised may or may not have left its file half-written under its name, as
\* every to_parquet and to_csv writes straight to its target.
Raise(kind, tornKinds) ==
    /\ phase' = "aborted"
    /\ status' = Some(1)
    /\ failed' = failed \cup {kind}
    /\ \E t \in SUBSET tornKinds : torn' = torn \cup t

\* snapshots.append(snap) fills the buffer and the chunk write of line 74
\* raises.
AppendFlushFails ==
    /\ phase = "parse"
    /\ Len(emitted) < MaxSnaps
    /\ Len(snapshots) + 1 >= CHUNK_SIZE
    /\ \E t \in 1..MaxTs, sec \in MergeSecs :
          LET rec == [ts_ns |-> t, security_id |-> sec, id |-> Len(emitted) + 1]
          IN  /\ emitted' = Append(emitted, rec)
              /\ snapshots' = Append(snapshots, rec)
    /\ Raise("chunk", {"chunk"})
    /\ UNCHANGED <<chunk_files, chunk_counter, merged_files, batch_start, df,
                   parquet, csv, temp_dir>>

\* The input is exhausted and the write of the last chunk raises (lines
\* 114-115 with line 74).
EndOfInputFails ==
    /\ phase = "parse"
    /\ snapshots # << >>
    /\ Raise("chunk", {"chunk"})
    /\ UNCHANGED <<snapshots, chunk_files, chunk_counter, merged_files,
                   batch_start, df, parquet, csv, temp_dir, emitted>>

\* A round of the batch loop raises: reading a chunk (line 145) or writing
\* the merged file (line 153).
MergeBatchFails ==
    /\ phase = "batches"
    /\ batch_start < Len(chunk_files)
    /\ \/ Raise("chunk", {})
       \/ Raise("merged", {"merged"})
    /\ UNCHANGED <<snapshots, chunk_files, chunk_counter, merged_files,
                   batch_start, df, parquet, csv, temp_dir, emitted>>

\* shutil.rmtree(temp_dir) (lines 176-181): the chunks and the merged files
\* are removed, before anything is written.
CleanUp ==
    /\ phase = "merged"
    /\ temp_dir' = FALSE
    /\ phase' = "cleaned"
    /\ UNCHANGED <<snapshots, chunk_files, chunk_counter, merged_files,
                   batch_start, df, parquet, csv, torn, failed, status, emitted>>

\* df.to_parquet(parq) in its try (lines 183-195): an exception is printed
\* as a warning and main goes on.
WriteOutput ==
    /\ phase = "cleaned"
    /\ \/ /\ parquet' = df
          /\ UNCHANGED <<torn, failed>>
       \/ /\ parquet' = None
          /\ failed' = failed \cup {"parquet"}
          /\ \E t \in SUBSET {"parquet"} : torn' = torn \cup t
    /\ phase' = "written"
    /\ UNCHANGED <<snapshots, chunk_files, chunk_counter, merged_files,
                   batch_start, df, csv, temp_dir, status, emitted>>

\* df.to_csv(csv_path) and return 0 (lines 197-203).
WriteCsv ==
    /\ phase = "written"
    /\ csv' = df
    /\ status' = Some(0)
    /\ phase' = "done"
    /\ UNCHANGED <<snapshots, chunk_files, chunk_counter, merged_files,
                   batch_start, df, parquet, temp_dir, torn, failed, emitted>>

\* df.to_csv(csv_path) raises (line 197).
WriteCsvFails ==
    /\ phase = "written"
    /\ Raise("csv", {"csv"})
    /\ UNCHANGED <<snapshots, chunk_files, chunk_counter, merged_files,
                   batch_start, df, parquet, csv, temp_dir, emitted>>

NextMerge ==
    \/ AppendSnapshot /\ UNCHANGED <<ladderVars, pipeVars, metricVars, auxVars>>
    \/ EndOfInput /\ UNCHANGED <<ladderVars, pipeVars, metricVars, auxVars>>
    \/ MergeBatch /\ UNCHANGED <<ladderVars, pipeVars, metricVars, auxVars>>
    \/ FinalMerge /\ UNCHANGED <<ladderVars, pipeVars, metricVars, auxVars>>
    \/ CleanUp /\ UNCHANGED <<ladderVars, pipeVars, metricVars, auxVars>>
    \/ WriteOutput /\ UNCHANGED <<ladderVars, pipeVars, metricVars, auxVars>>
    \/ WriteCsv /\ UNCHANGED <<ladderVars, pipeVars, metricVars, auxVars>>
    \/ AppendFlushFails /\ UNCHANGED <<ladderVars, pipeVars, metricVars, auxVars>>
    \/ EndOfInputFails /\ UNCHANGED <<ladderVars, pipeVars, metricVars, auxVars>>
    \/ MergeBatchFails /\ UNCHANGED <<ladderVars, pipeVars, metricVars, auxVars>>
    \/ WriteCsvFails /\ UNCHANGED <<ladderVars, pipeVars, metricVars, auxVars>>

SpecMerge == InitMerge /\ [][NextMerge]_vars

\* Non-decreasing in time.
TimeOrdered(rows) ==
    \A i \in 1..(Len(rows) - 1) : rows[i].ts_ns <= rows[i + 1].ts_ns

\* Non-decreasing in (timestamp, instrument id).
KeyOrdered(rows) ==
    \A i \in 1..(Len(rows) - 1) :
        \/ rows[i].ts_ns < rows[i + 1].ts_ns
        \/ /\ rows[i].ts_ns = rows[i + 1].ts_ns
           /\ rows[i].security_id <= rows[i + 1].security_id

\* Every record of a once in b, and nothing else in b.
SameRecords(a, b) ==
    /\ Len(a) = Len(b)
    /\ \A i \in 1..Len(a) : \E j \in 1..Len(b) : b[j] = a[i]

Finished == phase = "done" /\ parquet # None

\* C1 as stated: whenever the emitted sequence is ordered in time, the final
\* file equals it.
C1_MergeReproducesTimeOrderedInput ==
    (Finished /\ TimeOrdered(emitted)) => Val(parquet) = emitted

\* C1 amended: whenever the emitted sequence is ordered by (timestamp,
\* instrument id) the final file equals it, records of equal key included;
\* and for every emitted sequence the final file holds exactly its records,
\* ordered by (timestamp, instrument id), equal keys in order of emission.
C1_MergeReproducesKeyOrderedInput ==
    Finished =>
        /\ KeyOrdered(emitted) => Val(parquet) = emitted
        /\ SameRecords(emitted, Val(parquet))
        /\ KeyOrdered(Val(parquet))
        /\ \A i, j \in 1..Len(emitted) :
              (i < j /\ Val(parquet)[i].ts_ns = Val(parquet)[j].ts_ns
                     /\ Val(parquet)[i].security_id = Val(parquet)[j].security_id)
                  => Val(parquet)[i].id < Val(parquet)[j].id

\* C1 witness: a key-ordered run of MaxSnaps records, two of them of equal
\* key in different chunks, went through the batched merge and came out as
\* it was emitted.
C1_Witness ==
    /\ Finished
    /\ Len(emitted) = MaxSnaps
    /\ Len(chunk_files) > BATCH_SIZE
    /\ Len(merged_files) > 1
    /\ KeyOrdered(emitted)
    /\ emitted[CHUNK_SIZE].ts_ns = emitted[CHUNK_SIZE + 1].ts_ns
    /\ emitted[CHUNK_SIZE].security_id = emitted[CHUNK_SIZE + 1].security_id
    /\ emitted[1].ts_ns < emitted[MaxSnaps].ts_ns
    /\ Val(parquet) = emitted

-----------------------------------------------------------------------------
(* The flush discipline of the buffer.                                     *)

\* The input was read to its end and the chunks are still on disk.
InputExhausted == phase \notin {"parse", "aborted"} /\ temp_dir

\* The places <<k, j>> of record r in the chunks.
PlacesInChunks(r) ==
    {<<k, j>> \in (1..Len(chunk_files)) \X (1..CHUNK_SIZE) :
        j <= Len(chunk_files[k]) /\ chunk_files[k][j] = r}

\* C11: while main runs the buffer holds fewer than CHUNK_SIZE snapshots
\* after each event; every chunk written is sorted by (timestamp,
\* instrument id) and holds at most CHUNK_SIZE snapshots; once the input is
\* exhausted the buffer is empty and every emitted snapshot is in exactly
\* one chunk.
C11_FlushDiscipline ==
    /\ phase # "aborted" => Len(snapshots) < CHUNK_SIZE
    /\ \A k \in 1..Len(chunk_files) :
          /\ KeyOrdered(chunk_files[k])
          /\ Len(chunk_files[k]) <= CHUNK_SIZE
    /\ InputExhausted =>
          /\ snapshots = << >>
          /\ \A i \in 1..Len(emitted) :
                Cardinality(PlacesInChunks(emitted[i])) = 1

\* C11 witness: the input is exhausted after a full chunk, whose records
\* were emitted out of key order, and a remainder.
C11_Witness ==
    /\ InputExhausted
    /\ Len(emitted) = CHUNK_SIZE + 1
    /\ Len(chunk_files) = 2
    /\ Len(chunk_files[1]) = CHUNK_SIZE
    /\ Len(chunk_files[2]) < CHUNK_SIZE
    /\ ~KeyOrdered(SubSeq(emitted, 1, CHUNK_SIZE))
    /\ snapshots = << >>

-----------------------------------------------------------------------------
(* The memory the merge takes.                                             *)

\* The snapshot records main holds: the buffer and the merged frame.
InMemory == Len(snapshots) + (IF df = None THEN 0 ELSE Len(Val(df)))

\* C12 as stated: main never holds more than CHUNK_SIZE * BATCH_SIZE
\* records, and the final merge reads at most BATCH_SIZE files.
C12_MemoryBounded ==
    /\ InMemory <= CHUNK_SIZE * BATCH_SIZE
    /\ (phase = "merged" /\ merged_files # << >>) => Len(merged_files) <= BATCH_SIZE

-----------------------------------------------------------------------------
(* The files of main under failure.                                        *)

\* C13 as stated: no file is ever half-written under a chunk name or an
\* output name.
C13_NoHalfWrittenFile == torn = {}

\* r is a row of the file with rows f, if the file was written.
InFile(r, f) == f # None /\ \E j \in 1..Len(Val(f)) : Val(f)[j] = r

\* C14 as stated: every record written to a chunk is, from then on, in a
\* chunk still on disk or in a final file written whole, and the temporary
\* directory is removed only once the final snapshot file is written.
C14_PersistedRecordsKept ==
    /\ \A k \in 1..Len(chunk_files) : \A j \in 1..Len(chunk_files[k]) :
          \/ temp_dir
          \/ InFile(chunk_files[k][j], parquet)
          \/ InFile(chunk_files[k][j], csv)
    /\ ~temp_dir => parquet # None

\* C15 as stated: main never returns 0 after a read or a write of a chunk,
\* a merged batch or the final snapshot file raised.
C15_IOFailureIsFatal == failed # {} => status # Some(0)

-----------------------------------------------------------------------------
(* scripts/aggregate_l5.py and scripts/aggregate_1s.py: the per-second     *)
(* metrics.  A cell of a loaded frame is a number, kept as a quotient of   *)
(* integers, or one of the two nulls pandas hands out: NaN in a column     *)
(* that holds a number somewhere, None in a column that is null in every   *)
(* row of the file.  Both are written back as null.                        *)

Quot(n, d) ==
    [tag |-> "num", num |-> IF d < 0 THEN 0 - n ELSE n, den |-> IF d < 0 THEN 0 - d ELSE d]

Num(n) == Quot(n, 1)

NaN == [tag |-> "nan", num |-> 0, den |-> 1]

PyNone == [tag |-> "none", num |-> 0, den |-> 1]

IsNull(v) == v.tag # "num"

\* bool(v): None and zero are false, NaN is true.
Truthy(v) == v.tag = "nan" \/ (v.tag = "num" /\ v.num # 0)

\* a and b
PyAnd(a, b) == IF Truthy(a) THEN b ELSE a

\* v or 0
OrZero(v) == IF Truthy(v) THEN v ELSE Num(0)

\* Arithmetic on numbers and NaN; NaN in, NaN out.
Add(a, b) ==
    IF a.tag # "num" \/ b.tag # "num" THEN NaN
    ELSE Quot(a.num * b.den + b.num * a.den, a.den * b.den)

Sub(a, b) ==
    IF a.tag # "num" \/ b.tag # "num" THEN NaN
    ELSE Quot(a.num * b.den - b.num * a.den, a.den * b.den)

Mul(a, b) ==
    IF a.tag # "num" \/ b.tag # "num" THEN NaN
    ELSE Quot(a.num * b.num, a.den * b.den)

Div(a, b) ==
    IF a.tag # "num" \/ b.tag # "num" \/ b.num = 0 THEN NaN
    ELSE Quot(a.num * b.den, a.den * b.num)

\* v > 0; false on NaN.
Positive(v) == v.tag = "num" /\ v.num > 0

\* Two cells hold the same number.
SameNumber(a, b) ==
    a.tag = "num" /\ b.tag = "num" /\ a.num * b.den = b.num * a.den

\* (spread_abs and midprice), the test of line 65.
SpreadRelGuard(spread_abs, midprice) == Truthy(PyAnd(spread_abs, midprice))

\* compute_l5_metrics (lines 28-98) on the last row of a group, for the
\* fields drawn from the top level.
compute_l5_metrics(last_row) ==
    LET best_bid   == last_row.bid_price_1
        best_ask   == last_row.ask_price_1
        bid_size_1 == OrZero(last_row.bid_size_1)
        ask_size_1 == OrZero(last_row.ask_size_1)
        both       == Truthy(PyAnd(best_bid, best_ask))
        spread_abs == IF both THEN Sub(best_ask, best_bid) ELSE PyNone
        midprice   == IF both THEN Div(Add(best_ask, best_bid), Num(2)) ELSE PyNone
        spread_rel == IF SpreadRelGuard(spread_abs, midprice)
                      THEN Div(spread_abs, midprice) ELSE PyNone
        total      == Add(bid_size_1, ask_size_1)
        imbalance_l1 == IF Positive(total)
                        THEN Div(Sub(bid_size_1, ask_size_1), total) ELSE PyNone
        microprice_l1 ==
            IF both /\ Positive(total)
            THEN Div(Add(Mul(best_ask, bid_size_1), Mul(best_bid, ask_size_1)), total)
            ELSE midprice
    IN  [security_id   |-> last_row.security_id,
         ts_s          |-> last_row.ts_s,
         best_bid      |-> best_bid,
         best_ask      |-> best_ask,
         bid_size_1    |-> bid_size_1,
         ask_size_1    |-> ask_size_1,
         spread_abs    |-> spread_abs,
         spread_rel    |-> spread_rel,
         midprice      |-> midprice,
         imbalance_l1  |-> imbalance_l1,
         microprice_l1 |-> microprice_l1]


\* ts_ns // 1_000_000_000 (aggregate_l5.py line 183, aggregate_1s.py line 74)
NANOS_PER_SECOND == 1000000000

\* The most rows a snapshot file holds.
MaxRows == 3

\* Timestamps on either side of a whole second.
MetricTimes == {999999999, 1000000000}

MetricPrices == {0 - 10, 10, 12}

MetricSizes == {0, 5}

\* The top of one side in a snapshot record: absent, or <<price, size>>.
MetricTops == {None} \cup {Some(<<p, z>>) : p \in MetricPrices, z \in MetricSizes}

\* A row of the snapshot file as parse_and_l5.py writes it, cut down to its
\* keys and the first slot of each side.
FileRows ==
    [ts_ns : MetricTimes, security_id : MergeSecs, bid : MetricTops, ask : MetricTops]

\* The cell read back for one column of a side's first slot: idx 1 the
\* price, idx 2 the size.
Cell(top, columnAllNull, idx) ==
    IF top # None THEN Num(Val(top)[idx])
    ELSE IF columnAllNull THEN PyNone ELSE NaN

\* pd.read_parquet(args.l5) and df['ts_s'] (aggregate_l5.py lines 171-183).
read_parquet(file) ==
    LET noBid == \A j \in 1..Len(file) : file[j].bid = None
        noAsk == \A j \in 1..Len(file) : file[j].ask = None
    IN  [j \in 1..Len(file) |->
            [ts_ns       |-> file[j].ts_ns,
             ts_s        |-> file[j].ts_ns \div NANOS_PER_SECOND,
             security_id |-> file[j].security_id,
             bid_price_1 |-> Cell(file[j].bid, noBid, 1),
             bid_size_1  |-> Cell(file[j].bid, noBid, 2),
             ask_price_1 |-> Cell(file[j].ask, noAsk, 1),
             ask_size_1  |-> Cell(file[j].ask, noAsk, 2)]]

\* The group key of a row.
GroupKey(r) == <<r.security_id, r.ts_s>>

GroupKeys(frame) == {GroupKey(frame[j]) : j \in 1..Len(frame)}

\* Keys in the order of sort_values(['security_id', 'ts_s']).
RECURSIVE SortedKeys(_)
SortedKeys(K) ==
    IF K = {} THEN << >>
    ELSE LET lo == CHOOSE k \in K : \A o \in K :
                       k[1] < o[1] \/ (k[1] = o[1] /\ k[2] <= o[2])
         IN  <<lo>> \o SortedKeys(K \ {lo})

\* group_df.iloc[-1] (aggregate_l5.py line 30): the last row of group k, in
\* the order of the frame.
LastRow(frame, k) ==
    frame[CHOOSE j \in 1..Len(frame) :
              /\ GroupKey(frame[j]) = k
              /\ \A i \in 1..Len(frame) : GroupKey(frame[i]) = k => i <= j]

\* df.groupby(['security_id', 'ts_s']).apply(compute_l5_metrics) and the
\* final sort (aggregate_l5.py lines 190-233).
aggregate_l5(file) ==
    LET frame == read_parquet(file)
        keys  == SortedKeys(GroupKeys(frame))
    IN  [n \in 1..Len(keys) |-> compute_l5_metrics(LastRow(frame, keys[n]))]

\* rows with x behind every row whose (security_id, ts_ns) is at most x's.
InsertBySecurity(rows, x) ==
    LET n == Cardinality({j \in 1..Len(rows) :
                 \/ rows[j].security_id < x.security_id
                 \/ rows[j].security_id = x.security_id /\ rows[j].ts_ns <= x.ts_ns})
    IN  SubSeq(rows, 1, n) \o <<x>> \o SubSeq(rows, n + 1, Len(rows))

\* df.sort_values(['security_id', 'ts_ns']) (aggregate_1s.py line 76)
RECURSIVE SortBySecurity(_)
SortBySecurity(rows) ==
    IF rows = << >> THEN << >>
    ELSE InsertBySecurity(SortBySecurity(SubSeq(rows, 1, Len(rows) - 1)),
                          rows[Len(rows)])

\* The entries of s at the given places, in their order.
RECURSIVE KeepPlaces(_, _)
KeepPlaces(s, places) ==
    IF s = << >> THEN << >>
    ELSE LET rest == KeepPlaces(SubSeq(s, 1, Len(s) - 1), places)
         IN  IF Len(s) \in places THEN Append(rest, s[Len(s)]) ELSE rest

\* last_per_sec of _aggregate_l1_per_second (aggregate_1s.py lines 73-77):
\* groupby(['security_id', 'ts_s']).tail(1) on the sorted frame.  The rows
\* carry the names of the first slot for the best_bid, bid_size, best_ask
\* and ask_size of the L1 file.
last_per_sec(file) ==
    LET sorted_df == SortBySecurity(read_parquet(file))
    IN  KeepPlaces(sorted_df,
                   {j \in 1..Len(sorted_df) :
                       \A i \in 1..Len(sorted_df) :
                           GroupKey(sorted_df[i]) = GroupKey(sorted_df[j]) => i <= j})


\* Python's truth value of an optional integer: None and 0 are false
\* (the test `if ts_ns and security_id`, aggregate_l5.py line 126).
TruthyInt(o) == o # None /\ Val(o) # 0

\* The places of the decoded entries that make a count record
\* (aggregate_l5.py lines 120-136).
CountRecords(events) ==
    {j \in 1..Len(events) :
        TruthyInt(events[j].ts_ns) /\ TruthyInt(events[j].security_id)}

\* The key of a count record: security_id and ts_ns // 1_000_000_000.
CountKey(e) == <<Val(e.security_id), Val(e.ts_ns) \div NANOS_PER_SECOND>>

\* is_update and is_cancel of a decoded entry (lines 128-129).
is_update(e) == IF e.md_update_action \in {Some(0), Some(1), Some(5)} THEN 1 ELSE 0

is_cancel(e) == IF e.md_update_action = Some(2) THEN 1 ELSE 0

\* The record appended for a decoded entry (lines 131-136).
CountRecord(e) ==
    [key          |-> CountKey(e),
     update_count |-> is_update(e),
     cancel_count |-> is_cancel(e)]

\* The sum of a column over the records at the given places.
RECURSIVE SumOver(_, _, _)
SumOver(records, places, column) ==
    IF places = {} THEN 0
    ELSE LET j == CHOOSE i \in places : TRUE
         IN  records[j][column] + SumOver(records, places \ {j}, column)

\* precompute_all_update_counts (aggregate_l5.py lines 101-152): the frame
\* of sums per (security_id, ts_s), as a function of the key; no record
\* gives the empty frame.
precompute_all_update_counts(events) ==
    LET records == [j \in CountRecords(events) |-> CountRecord(events[j])]
        keys    == {records[j].key : j \in DOMAIN records}
    IN  [k \in keys |->
            LET group == {j \in DOMAIN records : records[j].key = k}
            IN  [update_count |-> SumOver(records, group, "update_count"),
                 cancel_count |-> SumOver(records, group, "cancel_count")]]

\* result_df.merge(counts_df, on=['security_id', 'ts_s'], how='left') and
\* fillna(0) (aggregate_l5.py lines 223-231).
merge_counts(result, counts_df) ==
    [n \in 1..Len(result) |->
        LET k == <<result[n].security_id, result[n].ts_s>>
        IN  result[n] @@ (IF k \in DOMAIN counts_df THEN counts_df[k]
                          ELSE [update_count |-> 0, cancel_count |-> 0])]

InitMetrics == InitMerge

\* The rows of file for the instrument of row.
RowsOf(file, row) == SelectSeq(file, LAMBDA r : r.security_id = row.security_id)

\* row can follow file as the record of one more change of its instrument's
\* ladder: an event changes one side, and the first one finds both empty.
FollowsLadder(file, row) ==
    LET before == RowsOf(file, row)
        old    == IF before = << >> THEN [bid |-> None, ask |-> None]
                  ELSE before[Len(before)]
    IN  /\ row.bid = old.bid \/ row.ask = old.ask
        /\ before = << >> => (row.bid # None \/ row.ask # None)

\* The pipeline writes one more row to the snapshot file, in the order of
\* its final sort by (ts_ns, security_id).
WriteRow ==
    /\ result_df = None
    /\ l1_result = None
    /\ Len(l5_file) < MaxRows
    /\ \E row \in FileRows :
          /\ l5_file # << >> => KeyLeq(l5_file[Len(l5_file)], row)
          /\ FollowsLadder(l5_file, row)
          /\ l5_file' = Append(l5_file, row)
    /\ UNCHANGED <<result_df, l1_result>>

\* aggregate_l5.py main on the file (lines 169-233); an empty file ends
\* the run before any record is made (lines 178-180).
AggregateL5 ==
    /\ l5_file # << >>
    /\ result_df = None
    /\ result_df' = Some(merge_counts(aggregate_l5(l5_file),
                                      precompute_all_update_counts(di_file)))
    /\ UNCHANGED <<l5_file, l1_result>>

\* aggregate_1s.py's choice of rows on the file (lines 71-77).
AggregateL1 ==
    /\ l5_file # << >>
    /\ l1_result = None
    /\ l1_result' = Some(last_per_sec(l5_file))
    /\ UNCHANGED <<l5_file, result_df>>

NextMetrics ==
    \/ WriteRow /\ UNCHANGED <<ladderVars, pipeVars, mergeVars, auxVars>>
    \/ AggregateL5 /\ UNCHANGED <<ladderVars, pipeVars, mergeVars, auxVars>>
    \/ AggregateL1 /\ UNCHANGED <<ladderVars, pipeVars, mergeVars, auxVars>>

SpecMetrics == InitMetrics /\ [][NextMetrics]_vars


-----------------------------------------------------------------------------
(* The metric records against the snapshot file.                           *)

\* The (instrument, second) buckets of the file.
Bucket(row) == <<row.security_id, row.ts_ns \div NANOS_PER_SECOND>>

Buckets == {Bucket(l5_file[j]) : j \in 1..Len(l5_file)}

\* The last snapshot of bucket k in the order of the stream.
LastSnapshot(k) ==
    l5_file[CHOOSE j \in 1..Len(l5_file) :
                /\ Bucket(l5_file[j]) = k
                /\ \A i \in 1..Len(l5_file) : Bucket(l5_file[i]) = k => i <= j]

\* The places of the records for bucket k in a result.
RecordPlaces(recs, k) == {n \in 1..Len(recs) : <<recs[n].security_id, recs[n].ts_s>> = k}

\* The metric record of bucket k.
MetricRecord(k) ==
    Val(result_df)[CHOOSE n \in 1..Len(Val(result_df)) : n \in RecordPlaces(Val(result_df), k)]

\* A cell shows what the snapshot holds in column idx of a side: null for
\* an absent side, the number otherwise.
ShowsTop(cell, top, idx) ==
    IF top = None THEN IsNull(cell) ELSE SameNumber(cell, Num(Val(top)[idx]))

\* Exactly one record for every bucket of the file, and no other record.
OneRecordPerBucket(recs) ==
    /\ Len(recs) = Cardinality(Buckets)
    /\ \A k \in Buckets : Cardinality(RecordPlaces(recs, k)) = 1

\* C17 as stated: one record for each bucket that holds a snapshot, with the
\* best prices and sizes of the bucket's last snapshot.
C17_OneRecordPerBucketFromLastSnapshot ==
    /\ result_df # None =>
          /\ OneRecordPerBucket(Val(result_df))
          /\ \A k \in Buckets :
                /\ ShowsTop(MetricRecord(k).best_bid, LastSnapshot(k).bid, 1)
                /\ ShowsTop(MetricRecord(k).bid_size_1, LastSnapshot(k).bid, 2)
                /\ ShowsTop(MetricRecord(k).best_ask, LastSnapshot(k).ask, 1)
                /\ ShowsTop(MetricRecord(k).ask_size_1, LastSnapshot(k).ask, 2)
    /\ l1_result # None =>
          /\ OneRecordPerBucket(Val(l1_result))
          /\ \A k \in Buckets : \A n \in RecordPlaces(Val(l1_result), k) :
                /\ ShowsTop(Val(l1_result)[n].bid_price_1, LastSnapshot(k).bid, 1)
                /\ ShowsTop(Val(l1_result)[n].bid_size_1, LastSnapshot(k).bid, 2)
                /\ ShowsTop(Val(l1_result)[n].ask_price_1, LastSnapshot(k).ask, 1)
                /\ ShowsTop(Val(l1_result)[n].ask_size_1, LastSnapshot(k).ask, 2)

\* Both sides of the record are there, as numbers.
BothSides(rec) == rec.best_bid.tag = "num" /\ rec.best_ask.tag = "num"

BothSizes(rec) == rec.bid_size_1.tag = "num" /\ rec.ask_size_1.tag = "num"

\* (best_bid + best_ask) / 2
MidOf(rec) == Div(Add(rec.best_ask, rec.best_bid), Num(2))

\* C18 as stated: imbalance is (bid_size - ask_size) / (bid_size + ask_size)
\* when the sum is not zero and null when it is; spread_rel is
\* spread_abs / midprice when both sides are there and midprice is not zero,
\* a zero spread included, and null when midprice is zero or a side is
\* absent.
C18_NullDenominators ==
    result_df # None => \A n \in 1..Len(Val(result_df)) :
        LET rec   == Val(result_df)[n]
            total == Add(rec.bid_size_1, rec.ask_size_1)
        IN  /\ (BothSizes(rec) /\ total.num # 0) =>
                  SameNumber(rec.imbalance_l1,
                             Div(Sub(rec.bid_size_1, rec.ask_size_1), total))
            /\ (BothSizes(rec) /\ total.num = 0) => IsNull(rec.imbalance_l1)
            /\ (BothSides(rec) /\ MidOf(rec).num # 0) =>
                  SameNumber(rec.spread_rel,
                             Div(Sub(rec.best_ask, rec.best_bid), MidOf(rec)))
            /\ (~BothSides(rec) \/ MidOf(rec).num = 0) => IsNull(rec.spread_rel)

\* C19 as stated: with both best prices there, microprice is the midprice
\* when exactly one of the two sizes is zero, and
\* (best_ask * bid_size + best_bid * ask_size) / (bid_size + ask_size) when
\* both sizes are positive.
C19_MicropriceFallback ==
    result_df # None => \A n \in 1..Len(Val(result_df)) :
        LET rec == Val(result_df)[n]
            b   == rec.bid_size_1
            a   == rec.ask_size_1
        IN  (BothSides(rec) /\ BothSizes(rec)) =>
              /\ ((b.num = 0) # (a.num = 0)) => SameNumber(rec.microprice_l1, MidOf(rec))
              /\ (b.num > 0 /\ a.num > 0) =>
                    SameNumber(rec.microprice_l1,
                               Div(Add(Mul(rec.best_ask, b), Mul(rec.best_bid, a)), Add(b, a)))

\* C20 as stated: when the last snapshot of a bucket has no bid level, the
\* record of the bucket has best_bid absent, best_ask and ask_size the ask
\* values, and spread_abs and imbalance null.
C20_AbsentBidSide ==
    result_df # None => \A k \in Buckets :
        LastSnapshot(k).bid = None =>
            /\ IsNull(MetricRecord(k).best_bid)
            /\ ShowsTop(MetricRecord(k).best_ask, LastSnapshot(k).ask, 1)
            /\ ShowsTop(MetricRecord(k).ask_size_1, LastSnapshot(k).ask, 2)
            /\ IsNull(MetricRecord(k).spread_abs)
            /\ IsNull(MetricRecord(k).imbalance_l1)


-----------------------------------------------------------------------------
(* The update and cancel counts of aggregate_l5.py against the DI file.    *)

\* The most decoded entries in the DI file.
MaxEvents == 2

CountSecs == {0, 1}

\* What tokens_to_event gives for the three fields the count reads.
RawEvents ==
    [security_id      : {None} \cup {Some(i) : i \in CountSecs},
     ts_ns            : {None} \cup {Some(t) : t \in MetricTimes},
     md_update_action : {None, Some(0), Some(1), Some(2), Some(3), Some(5)}]

\* The rows the pipeline can write for an entry of the instruments counted.
CountRows ==
    [ts_ns : MetricTimes, security_id : CountSecs,
     bid : {None, Some(<<10, 5>>)}, ask : {None, Some(<<12, 5>>)}]

\* parse_and_l5.py and then aggregate_l5.py read the same DI file: one more
\* decoded entry, and the snapshot row of the pipeline when the entry
\* changed its instrument's ladder.
DecodeEntry ==
    /\ result_df = None
    /\ Len(di_file) < MaxEvents
    /\ \E e \in RawEvents, changed \in BOOLEAN :
          /\ di_file' = Append(di_file, e)
          /\ IF changed
             THEN /\ e.security_id # None
                  /\ e.ts_ns # None
                  /\ \E row \in CountRows :
                        /\ row.security_id = Val(e.security_id)
                        /\ row.ts_ns = Val(e.ts_ns)
                        /\ l5_file # << >> => KeyLeq(l5_file[Len(l5_file)], row)
                        /\ FollowsLadder(l5_file, row)
                        /\ l5_file' = Append(l5_file, row)
             ELSE l5_file' = l5_file
    /\ UNCHANGED <<result_df, l1_result>>

NextCounts ==
    \/ DecodeEntry /\ UNCHANGED <<ladderVars, pipeVars, mergeVars, notCounts>>
    \/ AggregateL5 /\ UNCHANGED <<ladderVars, pipeVars, mergeVars, auxVars>>

SpecCounts == InitMetrics /\ [][NextCounts]_vars

\* The decoded entries of bucket k with one of the given actions.
RawCount(k, actions) ==
    Cardinality({j \in 1..Len(di_file) :
        /\ di_file[j].security_id = Some(k[1])
        /\ di_file[j].ts_ns # None
        /\ Val(di_file[j].ts_ns) \div NANOS_PER_SECOND = k[2]
        /\ di_file[j].md_update_action \in actions})

\* C21 as stated: every metric record carries the number of raw entries of
\* its instrument and second with action New, Change or Overlay as
\* update_count and the number with action Delete as cancel_count, zero
\* when there is none.
C21_CountsFromRawEvents ==
    result_df # None =>
        \A n \in 1..Len(Val(result_df)) :
            LET rec == Val(result_df)[n]
                k   == <<rec.security_id, rec.ts_s>>
            IN  /\ rec.update_count = RawCount(k, {Some(0), Some(1), Some(5)})
                /\ rec.cancel_count = RawCount(k, {Some(2)})

\* The same for the records of instruments whose id is not 0.
C21_CountsFromRawEventsNonZeroId ==
    result_df # None =>
        \A n \in 1..Len(Val(result_df)) :
            LET rec == Val(result_df)[n]
                k   == <<rec.security_id, rec.ts_s>>
            IN  rec.security_id # 0 =>
                  /\ rec.update_count = RawCount(k, {Some(0), Some(1), Some(5)})
                  /\ rec.cancel_count = RawCount(k, {Some(2)})


-----------------------------------------------------------------------------
(* The tokenizer of parser.py: extract_entry_tokens_from_di_line.  A line  *)
(* is a sequence of characters; positions are counted from 0 as in the     *)
(* code, the character at position i being line[i + 1].                    *)

\* The longest line given to the tokenizer.
MaxLineLen == 6

Whitespace == {" "}

Chars == {"{", "}", ",", "a"} \cup Whitespace

Lines == UNION {[1..n -> Chars] : n \in 0..MaxLineLen}

\* line[i]
At(s, i) == s[i + 1]

\* line[a:b]
Slice(s, a, b) == SubSeq(s, a + 1, b)

\* The inner while loop (lines 42-47): where it stops and the depth there.
RECURSIVE CloseBlock(_, _, _)
CloseBlock(s, i, brace_count) ==
    IF i < Len(s) /\ brace_count > 0
    THEN CloseBlock(s, i + 1,
                    IF At(s, i) = "{" THEN brace_count + 1
                    ELSE IF At(s, i) = "}" THEN brace_count - 1
                    ELSE brace_count)
    ELSE [i |-> i, brace_count |-> brace_count]

MutSplitDropsEmpty(s, sep) ==
    SelectSeq([m \in 1..(Len(SelectSeq(s, LAMBDA c : c = sep)) + 1) |->
                  LET cuts == {j \in 1..Len(s) : s[j] = sep} \cup {0, Len(s) + 1}
                      lo == CHOOSE x \in cuts : Cardinality({y \in cuts : y < x}) = m - 1
                      hi == CHOOSE x \in cuts : Cardinality({y \in cuts : y < x}) = m
                  IN  SubSeq(s, lo + 1, hi - 1)],
              LAMBDA t : t # << >>)

\* str.split(sep): the pieces between the separators, empty ones kept.
RECURSIVE split(_, _)
split(s, sep) ==
    IF \E j \in 1..Len(s) : s[j] = sep
    THEN LET j == CHOOSE k \in 1..Len(s) :
                      s[k] = sep /\ \A h \in 1..(k - 1) : s[h] # sep
         IN  <<SubSeq(s, 1, j - 1)>> \o split(SubSeq(s, j + 1, Len(s)), sep)
    ELSE <<s>>

RECURSIVE lstrip(_)
lstrip(t) == IF t # << >> /\ t[1] \in Whitespace THEN lstrip(Tail(t)) ELSE t

RECURSIVE rstrip(_)
rstrip(t) ==
    IF t # << >> /\ t[Len(t)] \in Whitespace
    THEN rstrip(SubSeq(t, 1, Len(t) - 1)) ELSE t

\* str.strip()
strip(t) == rstrip(lstrip(t))

\* The outer while loop starting at position i with the entries found so
\* far (lines 37-54).
RECURSIVE Scan(_, _, _)
Scan(s, i, found) ==
    IF i >= Len(s) THEN found
    ELSE IF At(s, i) = "{"
    THEN LET start == i + 1
             end   == CloseBlock(s, i + 1, 1)
         IN  IF end.brace_count = 0
             THEN LET inner      == Slice(s, start, end.i - 1)
                      raw_tokens == split(inner, ",")
                      stripped   == [m \in 1..Len(raw_tokens) |-> strip(raw_tokens[m])]
                  IN  Scan(s, end.i, Append(found, stripped))
             ELSE Scan(s, end.i, found)
    ELSE Scan(s, i + 1, found)

extract_entry_tokens_from_di_line(s) == Scan(s, 0, << >>)

InitTokenizer ==
    /\ CoreIdle
    /\ PipelineIdle
    /\ AuxIdleExcept("tokenizer")
    /\ line \in Lines
    /\ entries = None

\* entries = extract_entry_tokens_from_di_line(line)
Tokenize ==
    /\ entries = None
    /\ entries' = Some(extract_entry_tokens_from_di_line(line))
    /\ UNCHANGED line

NextTokenizer ==
    Tokenize /\ UNCHANGED <<ladderVars, pipeVars, mergeVars, metricVars, notTokenizer>>

SpecTokenizer == InitTokenizer /\ [][NextTokenizer]_vars

(* The blocks of a line, by counting delimiters.                           *)

\* Opening delimiters minus closing ones among the places a..b of s.
DepthOver(s, a, b) ==
    Cardinality({j \in a..b : s[j] = "{"}) - Cardinality({j \in a..b : s[j] = "}"})

\* The places where a block opened at place a could close.
Closes(s, a) == {b \in (a + 1)..Len(s) : DepthOver(s, a, b) = 0}

\* Place a opens a balanced block.
Balanced(s, a) == s[a] = "{" /\ Closes(s, a) # {}

\* The place of the delimiter that closes the block opened at a.
Match(s, a) == CHOOSE b \in Closes(s, a) : \A c \in Closes(s, a) : b <= c

\* A balanced block is top-level when no opening delimiter before it is
\* still open where it starts.
TopLevel(s, a) ==
    /\ Balanced(s, a)
    /\ \A o \in 1..(a - 1) : s[o] = "{" => Balanced(s, o) /\ Match(s, o) < a

TopBlocks(s) == {a \in 1..Len(s) : TopLevel(s, a)}

\* The n-th smallest member of a set of numbers.
NthOf(S, n) == CHOOSE x \in S : Cardinality({y \in S : y < x}) = n - 1

\* The text enclosed by the block opened at a.
Inner(s, a) == SubSeq(s, a + 1, Match(s, a) - 1)

\* The m-th piece of text between the separators of s.
Piece(s, m) ==
    LET cuts == {j \in 1..Len(s) : s[j] = ","} \cup {0, Len(s) + 1}
    IN  SubSeq(s, NthOf(cuts, m) + 1, NthOf(cuts, m + 1) - 1)

\* t is piece without the whitespace at its two ends.
IsTrimOf(t, piece) ==
    /\ t # << >> => t[1] \notin Whitespace /\ t[Len(t)] \notin Whitespace
    /\ \E a \in 0..Len(piece) :
          /\ a + Len(t) <= Len(piece)
          /\ SubSeq(piece, a + 1, a + Len(t)) = t
          /\ \A j \in 1..Len(piece) :
                (j <= a \/ j > a + Len(t)) => piece[j] \in Whitespace

\* The entry is the text of the block opened at a, split and trimmed.
EntryOfBlock(entry, s, a) ==
    LET inner == Inner(s, a)
    IN  /\ Len(entry) = Cardinality({j \in 1..Len(inner) : inner[j] = ","}) + 1
        /\ \A m \in 1..Len(entry) : IsTrimOf(entry[m], Piece(inner, m))

\* C22: the tokenizer returns, left to right, exactly one entry for each
\* top-level balanced block of the line; the entry holds the enclosed text
\* split on the separator, every token trimmed of whitespace, empty tokens
\* kept.
C22_OneEntryPerTopLevelBlock ==
    entries # None =>
        /\ Len(Val(entries)) = Cardinality(TopBlocks(line))
        /\ \A n \in 1..Len(Val(entries)) :
              EntryOfBlock(Val(entries)[n], line, NthOf(TopBlocks(line), n))

\* A block with a padded token and two empty ones has been tokenized.
C22_Witness ==
    /\ line = <<"{", " ", "a", ",", ",", "}">>
    /\ entries = Some(<< << <<"a">>, << >>, << >> >> >>)

\* A balanced block that no balanced block encloses.
Outermost(s, a) ==
    /\ Balanced(s, a)
    /\ \A o \in 1..(a - 1) : Balanced(s, o) => Match(s, o) < a

OutermostBlocks(s) == {a \in 1..Len(s) : Outermost(s, a)}

\* C23 as stated: an unbalanced opening delimiter gives no entry and costs
\* no other; every balanced block of the line, before or after it, is
\* returned as an entry.
C23_OnlyUnbalancedBlockDropped ==
    entries # None =>
        /\ Len(Val(entries)) = Cardinality(OutermostBlocks(line))
        /\ \A n \in 1..Len(Val(entries)) :
              EntryOfBlock(Val(entries)[n], line, NthOf(OutermostBlocks(line), n))

\* The blocks that end before the first unbalanced opening delimiter.
BlocksBeforeUnbalanced(s) ==
    {a \in OutermostBlocks(s) :
        \A o \in 1..(a - 1) : s[o] = "{" => Balanced(s, o)}

\* What holds instead: the blocks before the first unbalanced opening
\* delimiter are returned and nothing after it is.
C23_BlocksBeforeUnbalancedReturned ==
    entries # None =>
        /\ Len(Val(entries)) = Cardinality(BlocksBeforeUnbalanced(line))
        /\ \A n \in 1..Len(Val(entries)) :
              EntryOfBlock(Val(entries)[n], line, NthOf(BlocksBeforeUnbalanced(line), n))


-----------------------------------------------------------------------------
(* The decoder of parser.py: tokens_to_event.  A token is a sequence of    *)
(* characters, a float a quotient of integers.                             *)

Digits == <<"0", "1", "2", "3", "4", "5", "6", "7", "8", "9">>

IsDigit(c) == \E i \in 1..Len(Digits) : Digits[i] = c

DigitValue(c) == (CHOOSE i \in 1..Len(Digits) : Digits[i] = c) - 1

AllDigits(t) == \A j \in 1..Len(t) : IsDigit(t[j])

\* The number a sequence of digits writes in base ten.
RECURSIVE Decimal(_)
Decimal(ds) ==
    IF ds = << >> THEN 0
    ELSE 10 * Decimal(SubSeq(ds, 1, Len(ds) - 1)) + DigitValue(ds[Len(ds)])

RECURSIVE Pow10(_)
Pow10(k) == IF k = 0 THEN 1 ELSE 10 * Pow10(k - 1)

\* A numeral without its sign, and the sign.
Unsigned(t) == IF t # << >> /\ t[1] \in {"-", "+"} THEN Tail(t) ELSE t

Sign(t) == IF t # << >> /\ t[1] = "-" THEN 0 - 1 ELSE 1

\* _to_int (lines 226-230): int(s), None where int raises.  int takes
\* whitespace around an optional sign and one or more digits.
to_int(s) ==
    LET t == strip(s)
        u == Unsigned(t)
    IN  IF u # << >> /\ AllDigits(u) THEN Some(Sign(t) * Decimal(u)) ELSE None

MutToFloatTruncates(s) ==
    LET t == strip(s)
        u == Unsigned(t)
        whole == SelectSeq(u, IsDigit)
    IN  IF whole # << >> THEN Some(Quot(Sign(t) * Decimal(whole), 1)) ELSE None

\* float(s) does not raise: whitespace around an optional sign and digits
\* with at most one point, at least one digit in all.
float_parses(s) ==
    LET u == Unsigned(strip(s))
        points == {j \in 1..Len(u) : u[j] = "."}
    IN  IF points = {} THEN u # << >> /\ AllDigits(u)
        ELSE /\ Cardinality(points) = 1
             /\ LET d == CHOOSE j \in points : TRUE
                IN  /\ AllDigits(SubSeq(u, 1, d - 1))
                    /\ AllDigits(SubSeq(u, d + 1, Len(u)))
                    /\ Len(u) > 1

\* The number float(s) returns for such an s.
float_value(s) ==
    LET t == strip(s)
        u == Unsigned(t)
        points == {j \in 1..Len(u) : u[j] = "."}
    IN  IF points = {} THEN Quot(Sign(t) * Decimal(u), 1)
        ELSE LET d     == CHOOSE j \in points : TRUE
                 whole == SubSeq(u, 1, d - 1)
                 frac  == SubSeq(u, d + 1, Len(u))
             IN  Quot(Sign(t) * (Decimal(whole) * Pow10(Len(frac)) + Decimal(frac)),
                      Pow10(Len(frac)))

\* _to_float (lines 232-236): float(s), None where float raises.
to_float(s) == IF float_parses(s) THEN Some(float_value(s)) ELSE None

\* _get (lines 223-224): tokens[i] if i < len(tokens) else "".  A negative
\* i passes the test; tokens[i] then counts from the end of the list and
\* raises IndexError when the list is shorter than -i.
token_at(toks, i) ==
    IF i < Len(toks)
    THEN IF i >= 0 THEN [raised |-> FALSE, token |-> toks[i + 1]]
         ELSE IF i + Len(toks) >= 0
         THEN [raised |-> FALSE, token |-> toks[i + Len(toks) + 1]]
         ELSE [raised |-> TRUE, token |-> << >>]
    ELSE [raised |-> FALSE, token |-> << >>]

\* The indices of a DiMapping (lines 81-89), in the order tokens_to_event
\* reads them.
MappingIndices(m) ==
    <<m.md_update_action_idx, m.entry_type_idx, m.price_level_idx,
      m.security_id_idx, m.price_idx, m.size_idx, m.ts_ns_idx>>

\* tokens_to_event (lines 218-246): the event, or the exception that
\* leaves the function.
tokens_to_event(toks, m) ==
    IF \E n \in 1..7 : token_at(toks, MappingIndices(m)[n]).raised
    THEN [raised |-> TRUE, event |-> NoEvent]
    ELSE [raised |-> FALSE,
          event  |->
            [md_update_action |-> to_int(token_at(toks, m.md_update_action_idx).token),
             entry_type       |-> to_int(token_at(toks, m.entry_type_idx).token),
             price_level      |-> to_int(token_at(toks, m.price_level_idx).token),
             security_id      |-> to_int(token_at(toks, m.security_id_idx).token),
             price            |-> to_float(token_at(toks, m.price_idx).token),
             size             |-> to_int(token_at(toks, m.size_idx).token),
             ts_ns            |-> to_int(token_at(toks, m.ts_ns_idx).token)]]

\* evt = tokens_to_event(entry, mapping)
Decode ==
    /\ tokens # None
    /\ decoded = None
    /\ decoded' = Some(tokens_to_event(Val(tokens), mapping))
    /\ UNCHANGED <<tokens, mapping, values>>

(* Decoding what was written from known values.                            *)

\* The largest token position of a Mapping in the round trip.
MaxIndex == 7

FieldNames ==
    <<"md_update_action", "entry_type", "price_level", "security_id", "price",
      "size", "ts_ns">>

\* The Mapping with the given seven indices.
DiMapping(idx) ==
    [md_update_action_idx |-> idx[1], entry_type_idx |-> idx[2],
     price_level_idx |-> idx[3], security_id_idx |-> idx[4],
     price_idx |-> idx[5], size_idx |-> idx[6], ts_ns_idx |-> idx[7]]

\* Mappings for the round trip: the first four roles on consecutive
\* positions from any start, the last three anywhere.
RoundTripMappings ==
    {DiMapping(<<r % (MaxIndex + 1), (r + 1) % (MaxIndex + 1), (r + 2) % (MaxIndex + 1),
                 (r + 3) % (MaxIndex + 1), p, z, t>>) :
        r \in 0..MaxIndex, p \in 0..MaxIndex, z \in 0..MaxIndex, t \in 0..MaxIndex}

\* Field values to write: integers, and prices in tenths.
ValueSamples ==
    [md_update_action : {0, 5}, entry_type : {1}, price_level : {3},
     security_id : {12}, price : {Quot(105, 10), Quot(0 - 5, 10), Quot(100, 10)},
     size : {7}, ts_ns : {17, NANOS_PER_SECOND}]

\* str(n) of an integer.
RECURSIVE DigitsOf(_)
DigitsOf(n) ==
    IF n < 10 THEN <<Digits[n + 1]>>
    ELSE DigitsOf(n \div 10) \o <<Digits[(n % 10) + 1]>>

StrInt(n) == IF n < 0 THEN <<"-">> \o DigitsOf(0 - n) ELSE DigitsOf(n)

\* str(x) of a float given in tenths.
StrFloat(q) ==
    LET n == IF q.num < 0 THEN 0 - q.num ELSE q.num
    IN  (IF q.num < 0 THEN <<"-">> ELSE << >>)
            \o DigitsOf(n \div 10) \o <<".">> \o DigitsOf(n % 10)

StrField(v, name) == IF name = "price" THEN StrFloat(v[name]) ELSE StrInt(v[name])

\* The token list with each of the first n values written at its mapped
\* position, in the order of the fields, on a list of empty tokens.
RECURSIVE WriteTokens(_, _, _)
WriteTokens(v, m, n) ==
    IF n = 0 THEN [j \in 1..(MaxIndex + 1) |-> << >>]
    ELSE [WriteTokens(v, m, n - 1) EXCEPT ![MappingIndices(m)[n] + 1] =
              StrField(v, FieldNames[n])]

InitRoundTrip ==
    /\ CoreIdle
    /\ PipelineIdle
    /\ AuxIdleExcept("decoder")
    /\ values \in {Some(v) : v \in ValueSamples}
    /\ mapping \in RoundTripMappings
    /\ tokens = None
    /\ decoded = None

\* The values are written as tokens at the positions of the Mapping.
Serialize ==
    /\ values # None
    /\ tokens = None
    /\ tokens' = Some(WriteTokens(Val(values), mapping, 7))
    /\ UNCHANGED <<mapping, decoded, values>>

NextRoundTrip ==
    \/ Serialize /\ UNCHANGED <<ladderVars, pipeVars, mergeVars, metricVars, notDecoder>>
    \/ Decode /\ UNCHANGED <<ladderVars, pipeVars, mergeVars, metricVars, notDecoder>>

SpecRoundTrip == InitRoundTrip /\ [][NextRoundTrip]_vars

\* The event holds the values written.
SameFields(e, v) ==
    /\ \A n \in {1, 2, 3, 4, 6, 7} : e[FieldNames[n]] = Some(v[FieldNames[n]])
    /\ e.price # None
    /\ SameNumber(Val(e.price), v.price)

\* C24 as stated: for any Mapping and any values, decoding the tokens
\* written from the values returns the values.
C24_RoundTrip ==
    (values # None /\ decoded # None) =>
        /\ ~Val(decoded).raised
        /\ SameFields(Val(decoded).event, Val(values))

\* No two roles of the Mapping share a position.
DistinctIndices(m) ==
    \A a, b \in 1..7 : a # b => MappingIndices(m)[a] # MappingIndices(m)[b]

\* C24 amended: for any Mapping whose seven positions are distinct and any
\* values, decoding the tokens written from the values returns the values.
C24_RoundTripDistinctIndices ==
    (values # None /\ decoded # None /\ DistinctIndices(mapping)) =>
        /\ ~Val(decoded).raised
        /\ SameFields(Val(decoded).event, Val(values))

\* A price with a fraction and a timestamp of ten digits came back through
\* a Mapping of distinct positions that is not in field order.
C24_Witness ==
    /\ values # None
    /\ decoded # None
    /\ DistinctIndices(mapping)
    /\ mapping.ts_ns_idx < mapping.price_idx
    /\ mapping.price_idx < mapping.md_update_action_idx
    /\ Val(values).price = Quot(105, 10)
    /\ Val(values).ts_ns = NANOS_PER_SECOND
    /\ Val(decoded).event.ts_ns = Some(NANOS_PER_SECOND)
    /\ Val(tokens)[mapping.price_idx + 1] = <<"1", "0", ".", "5">>


(* Decoding any token list.                                                *)

\* The longest token list given to the decoder.
MaxTokens == 2

\* Tokens of every kind: empty, integers, a float, a lone point, a word.
TokenSamples ==
    {<< >>, <<"5">>, <<"-", "5">>, <<"1", ".", "5">>, <<".">>, <<"x">>}

TokenLists == UNION {[1..n -> TokenSamples] : n \in 0..MaxTokens}

\* Positions inside and outside the lists, and one counted from the end.
IndexSamples == {0 - 1, 0, 1, 2}

AnyMappings ==
    {DiMapping(<<a, s, l, i, p, z, t>>) :
        a \in IndexSamples, s \in IndexSamples, l \in IndexSamples,
        i \in IndexSamples, p \in IndexSamples, z \in IndexSamples,
        t \in IndexSamples}

InitDecoder ==
    /\ CoreIdle
    /\ PipelineIdle
    /\ AuxIdleExcept("decoder")
    /\ values = None
    /\ mapping \in AnyMappings
    /\ tokens \in {Some(l) : l \in TokenLists}
    /\ decoded = None

NextDecoder ==
    Decode /\ UNCHANGED <<ladderVars, pipeVars, mergeVars, metricVars, notDecoder>>

SpecDecoder == InitDecoder /\ [][NextDecoder]_vars

\* What Python's int() and float() make of the sample tokens; None where
\* the conversion fails.
IntOfSample(t) ==
    CASE t = <<"5">> -> Some(5)
      [] t = <<"-", "5">> -> Some(0 - 5)
      [] OTHER -> None

FloatOfSample(t) ==
    CASE t = <<"5">> -> Some(Quot(5, 1))
      [] t = <<"-", "5">> -> Some(Quot(0 - 5, 1))
      [] t = <<"1", ".", "5">> -> Some(Quot(15, 10))
      [] OTHER -> None

\* Field n of the event is null when its position is outside the list or
\* its token is no number, and the number of its token otherwise.
FieldDecodedAlone(e, toks, m, n) ==
    LET i == MappingIndices(m)[n]
    IN  IF i < 0 \/ i >= Len(toks) THEN e[FieldNames[n]] = None
        ELSE IF n = 5 THEN e.price = FloatOfSample(toks[i + 1])
        ELSE e[FieldNames[n]] = IntOfSample(toks[i + 1])

\* C25 as stated: for every token list and every Mapping, decoding does not
\* raise, and each field is null when its position is outside the list or
\* its token fails conversion, and has the value of its own token
\* otherwise, whatever happens to the other fields.
C25_DecoderTotal ==
    (values = None /\ decoded # None) =>
        /\ ~Val(decoded).raised
        /\ \A n \in 1..7 :
              FieldDecodedAlone(Val(decoded).event, Val(tokens), mapping, n)

\* The same for the Mappings without a negative position.
C25_DecoderTotalFromZero ==
    (values = None /\ decoded # None /\ \A n \in 1..7 : MappingIndices(mapping)[n] >= 0) =>
        /\ ~Val(decoded).raised
        /\ \A n \in 1..7 :
              FieldDecodedAlone(Val(decoded).event, Val(tokens), mapping, n)


-----------------------------------------------------------------------------
(* The mapping inference of parser.py: infer_di_mapping, as run by         *)
(* scripts/inspect_schema.py.  A sampled line is given by the entries the  *)
(* tokenizer finds on it.                                                  *)

SAMPLE_LIMIT == 200

\* The most lines in the sample file.
MaxSampleLines == 5

\* n times the digit "1".
Ones(n) == [j \in 1..n |-> "1"]

\* Entries as the tokenizer returns them: with and without a nanosecond
\* timestamp, with and without the venue literal, and the entry of "{}".
EntrySamples ==
    { <<<<"0">>, <<"1">>, <<"0">>, <<"1", "2", "3">>, <<"M">>, <<"1", "0", ".", "5">>,
        <<"5">>, Ones(19)>>,
      <<<<"1">>, <<"2">>, <<"1">>, <<"1", "2", "3">>, <<"M">>, <<"1", "0", ".", "5">>,
        <<"5">>, Ones(19)>>,
      <<<<"0">>, <<"1">>, <<"0">>, <<"1", "2", "3">>, <<"M">>, <<"1", "0", ".", "5">>,
        <<"5">>>>,
      <<<<"1", "2", "3">>, <<"7">>, <<"x">>>>,
      <<<< >>>> }

\* A line holds no entry or one.
SampleLines == {<< >>} \cup {<<e>> : e \in EntrySamples}

\* _is_int_like (lines 58-63)
is_int_like(t) ==
    /\ t # << >>
    /\ IF t[1] = "-" THEN Tail(t) # << >> /\ AllDigits(Tail(t)) ELSE AllDigits(t)

\* s.lstrip("-")
RECURSIVE lstrip_minus(_)
lstrip_minus(t) == IF t # << >> /\ t[1] = "-" THEN lstrip_minus(Tail(t)) ELSE t

\* _is_big_ns_int (lines 66-68)
is_big_ns_int(t) ==
    is_int_like(t) /\ 16 <= Len(lstrip_minus(t)) /\ Len(lstrip_minus(t)) <= 20

\* _is_float_like (lines 71-78)
is_float_like(t) == t \notin {<< >>, <<".">>} /\ float_parses(t)

\* 0 <= int(val) <= 10 for an integer-like val (lines 140-143): a numeral
\* of zeros before its last two digits.
is_small_int(t) ==
    /\ is_int_like(t)
    /\ LET u    == Unsigned(t)
           head == SubSeq(u, 1, Len(u) - 2)
           tail == SubSeq(u, IF Len(u) > 2 THEN Len(u) - 1 ELSE 1, Len(u))
       IN  /\ \A j \in 1..Len(head) : head[j] = "0"
           /\ Decimal(tail) <= 10
           /\ t[1] = "-" => Decimal(tail) = 0

\* e[idx] if idx < len(e) else ""
ValueAt(e, idx) == IF idx < Len(e) THEN e[idx + 1] ELSE << >>

\* The entries of the first sample_limit lines (lines 106-112).
RECURSIVE CollectSamples(_, _)
CollectSamples(lines, sample_limit) ==
    IF lines = << >> THEN << >>
    ELSE LET before == CollectSamples(SubSeq(lines, 1, Len(lines) - 1), sample_limit)
         IN  IF Len(lines) - 1 >= sample_limit THEN before
             ELSE before \o lines[Len(lines)]

\* One of the counters of lines 123-145: per index, the samples whose value
\* there passes the test.
CountsOf(samples, max_len, Test(_)) ==
    [idx \in 0..(max_len - 1) |->
        Cardinality({n \in 1..Len(samples) : Test(ValueAt(samples[n], idx))})]

\* max(range(max_len), key=...): the first index with the greatest count.
ArgMax(counts) ==
    CHOOSE i \in DOMAIN counts :
        /\ \A j \in DOMAIN counts : counts[j] <= counts[i]
        /\ \A j \in DOMAIN counts : j < i => counts[j] < counts[i]

\* The first index after start with a count above zero, else the first
\* index with the greatest count (_first_float_after, _first_int_after).
FirstAfter(counts, start) ==
    IF \E j \in DOMAIN counts : j > start /\ counts[j] > 0
    THEN CHOOSE j \in DOMAIN counts :
             /\ j > start /\ counts[j] > 0
             /\ \A h \in DOMAIN counts : (h > start /\ counts[h] > 0) => j <= h
    ELSE ArgMax(counts)

\* The member of a set of indices that sorted(..., reverse=True) on
\* (count, index) puts first.
TopRanked(counts, S) ==
    CHOOSE i \in S : \A j \in S :
        counts[j] < counts[i] \/ (counts[j] = counts[i] /\ j <= i)

\* The indices of S in that order.
RECURSIVE Ranking(_, _)
Ranking(counts, S) ==
    IF S = {} THEN << >>
    ELSE <<TopRanked(counts, S)>> \o Ranking(counts, S \ {TopRanked(counts, S)})

\* The roles of lines 171-196: the Eurex positions, or the small-integer
\* ranking when position 2 does not look like a side.
SmallRoles(samples, max_len, small_int_counts, taken) ==
    LET checked == SubSeq(samples, 1, IF Len(samples) < 20 THEN Len(samples) ELSE 20)
        sides   == {n \in 1..Len(checked) :
                       /\ 2 < Len(checked[n])
                       /\ to_int(checked[n][3]) \in {Some(0), Some(1)}}
        kinds   == {to_int(checked[n][3]) : n \in sides}
        candidate_small == Ranking(small_int_counts, (0..(max_len - 1)) \ taken)
        entry_type_idx == IF candidate_small # << >> THEN candidate_small[1] ELSE 1
        md_update_action_idx == IF Len(candidate_small) > 1 THEN candidate_small[2] ELSE 0
        remaining == SelectSeq(candidate_small,
                               LAMBDA i : i \notin {entry_type_idx, md_update_action_idx})
    IN  IF max_len > 2 /\ (Cardinality(sides) < 5 \/ Cardinality(kinds) < 2)
        THEN [md_update_action_idx |-> md_update_action_idx,
              entry_type_idx       |-> entry_type_idx,
              price_level_idx      |-> IF remaining # << >> THEN remaining[1] ELSE 1]
        ELSE [md_update_action_idx |-> 0, entry_type_idx |-> 2, price_level_idx |-> 1]

\* max(candidates_sec)[1], else 3 (lines 199-205).
SecurityIdx(int_counts, small_int_counts, big_ns_counts, taken) ==
    LET cand == {i \in DOMAIN int_counts :
                    i \notin taken /\ int_counts[i] > 0 /\ big_ns_counts[i] = 0}
        diff == [i \in DOMAIN int_counts |-> int_counts[i] - small_int_counts[i]]
    IN  IF cand = {} THEN 3 ELSE TopRanked(diff, cand)

\* max(len(e) for e in samples)
MaxLen(samples) ==
    CHOOSE n \in {Len(samples[k]) : k \in 1..Len(samples)} :
        \A k \in 1..Len(samples) : Len(samples[k]) <= n

\* infer_di_mapping (lines 92-215): None, or the DiMapping.
infer_di_mapping(lines, sample_limit) ==
    LET samples == CollectSamples(lines, sample_limit)
    IN  IF samples = << >> THEN None
        ELSE IF MaxLen(samples) = 0 THEN None
        ELSE
        LET max_len          == MaxLen(samples)
            big_ns_counts    == CountsOf(samples, max_len, is_big_ns_int)
            float_counts     == CountsOf(samples, max_len, is_float_like)
            int_counts       == CountsOf(samples, max_len, is_int_like)
            small_int_counts == CountsOf(samples, max_len, is_small_int)
            literal_M_counts == CountsOf(samples, max_len, LAMBDA t : t = <<"M">>)
            ts_ns_idx        == ArgMax(big_ns_counts)
            has_M            == \E i \in DOMAIN literal_M_counts : literal_M_counts[i] > 0
            price_idx        == IF has_M
                                THEN FirstAfter(float_counts, ArgMax(literal_M_counts))
                                ELSE ArgMax(float_counts)
            size_idx         == FirstAfter(int_counts, price_idx)
            small            == SmallRoles(samples, max_len, small_int_counts,
                                           {price_idx, size_idx, ts_ns_idx})
            security_id_idx  ==
                SecurityIdx(int_counts, small_int_counts, big_ns_counts,
                            {price_idx, size_idx, ts_ns_idx, small.entry_type_idx,
                             small.md_update_action_idx, small.price_level_idx})
        IN  Some([md_update_action_idx |-> small.md_update_action_idx,
                  entry_type_idx       |-> small.entry_type_idx,
                  price_level_idx      |-> small.price_level_idx,
                  security_id_idx      |-> security_id_idx,
                  price_idx            |-> price_idx,
                  size_idx             |-> size_idx,
                  ts_ns_idx            |-> ts_ns_idx])

InitInfer ==
    /\ CoreIdle
    /\ PipelineIdle
    /\ AuxIdleExcept("infer")
    /\ sample = << >>
    /\ inferred = None

\* One more line in the DI file inspect_schema will read.
WriteSampleLine ==
    /\ inferred = None
    /\ Len(sample) < MaxSampleLines
    /\ \E l \in SampleLines : sample' = Append(sample, l)
    /\ UNCHANGED inferred

\* inspect_schema.py main (lines 39-90): exit code 1 for no line, 2 for no
\* mapping, else the mapping written and exit code 0.
InspectSchema ==
    /\ inferred = None
    /\ inferred' =
          Some(IF sample = << >> THEN [code |-> 1, mapping |-> None]
               ELSE LET m == infer_di_mapping(sample, SAMPLE_LIMIT)
                    IN  [code |-> IF m = None THEN 2 ELSE 0, mapping |-> m])
    /\ UNCHANGED sample

NextInfer ==
    \/ WriteSampleLine /\ UNCHANGED <<ladderVars, pipeVars, mergeVars, metricVars, notInfer>>
    \/ InspectSchema /\ UNCHANGED <<ladderVars, pipeVars, mergeVars, metricVars, notInfer>>

SpecInfer == InitInfer /\ [][NextInfer]_vars

\* A token that is an integer of 16 to 20 digits.
LargeInteger(t) == t # << >> /\ AllDigits(t) /\ Len(t) \in 16..20

\* The entries of the sample, one a line at most, that hold a large integer
\* in column idx.
LargeIntegerCount(idx) ==
    Cardinality({n \in 1..Len(sample) :
        /\ sample[n] # << >>
        /\ idx < Len(sample[n][1])
        /\ LargeInteger(sample[n][1][idx + 1])})

\* C26 as stated: inference never returns a Mapping whose timestamp column
\* holds no large integer; on such a sample, as on an empty one, it fails
\* and the script reports the failure.
C26_InferenceFailsRatherThanGuesses ==
    inferred # None =>
        LET out == Val(inferred)
        IN  /\ out.mapping # None => LargeIntegerCount(Val(out.mapping).ts_ns_idx) > 0
            /\ out.mapping = None => out.code # 0

\* The part that holds: a sample without any entry gives no Mapping and a
\* non-zero exit code.
C26_EmptySampleFails ==
    (inferred # None /\ \A n \in 1..Len(sample) : sample[n] = << >>) =>
        Val(inferred).mapping = None /\ Val(inferred).code # 0


-----------------------------------------------------------------------------
(* orderbook.py: the simple L1 book.                                       *)

\* L1State() (lines 20-26)
L1State ==
    [best_bid |-> None, bid_size |-> None, best_ask |-> None, ask_size |-> None,
     ts_ns |-> None]

\* The events given to the L1 book: an update, a delete and an unknown
\* action on either side or none, levels on both sides of the test of
\* line 51, with and without a price.
L1Events ==
    [md_update_action : {Some(0), Some(2), Some(3)},
     entry_type       : {None, Some(0), Some(1)},
     price_level      : {None, Some(0), Some(5), Some(6)},
     security_id      : {Some(1)},
     price            : OptPrices,
     size             : {Some(0), Some(5)},
     ts_ns            : {Some(1)}]

\* 'lvl is None or lvl > 5' (line 51)
L1LevelIgnored(e) == e.price_level = None \/ Val(e.price_level) > 5

\* L1Book.apply_event (lines 33-89): the state after the call and the
\* value returned.
l1_apply_event(st, e) ==
    IF e.entry_type \notin {Some(0), Some(1)} THEN [state |-> st, changed |-> FALSE]
    ELSE IF L1LevelIgnored(e) THEN [state |-> st, changed |-> FALSE]
    ELSE
    LET bid == e.entry_type = Some(0)
        upd == IF e.md_update_action \in {Some(a) : a \in UPDATE_ACTIONS}
               THEN IF bid
                    THEN [st EXCEPT
                            !.best_bid = IF e.price # None THEN Some(ToFloat(Val(e.price))) ELSE @,
                            !.bid_size = IF e.size # None THEN Some(ToInt(Val(e.size))) ELSE @]
                    ELSE [st EXCEPT
                            !.best_ask = IF e.price # None THEN Some(ToFloat(Val(e.price))) ELSE @,
                            !.ask_size = IF e.size # None THEN Some(ToInt(Val(e.size))) ELSE @]
               ELSE IF e.md_update_action = Some(DELETE_ACTION)
               THEN IF bid
                    THEN IF st.bid_size \notin {None, Some(0)}
                         THEN [st EXCEPT !.bid_size = Some(0)] ELSE st
                    ELSE IF st.ask_size \notin {None, Some(0)}
                         THEN [st EXCEPT !.ask_size = Some(0)] ELSE st
               ELSE st
    IN  [state   |-> [upd EXCEPT !.ts_ns = IF e.ts_ns # None THEN e.ts_ns ELSE @],
         changed |-> upd # st]

InitL1 ==
    /\ CoreIdle
    /\ PipelineIdle
    /\ AuxIdleExcept("l1")
    /\ l1_state = L1State
    /\ l1_before = L1State
    /\ l1_evt = None
    /\ l1_changed = None

\* evt = tokens_to_event(e, mapping), the next event of the feed.
ReceiveL1 ==
    /\ l1_evt = None \/ l1_changed # None
    /\ \E e \in L1Events : l1_evt' = Some(e)
    /\ l1_before' = l1_state
    /\ l1_changed' = None
    /\ UNCHANGED l1_state

\* changed = book.apply_event(evt)
ApplyL1 ==
    /\ l1_evt # None
    /\ l1_changed = None
    /\ l1_state' = l1_apply_event(l1_state, Val(l1_evt)).state
    /\ l1_changed' = Some(l1_apply_event(l1_state, Val(l1_evt)).changed)
    /\ UNCHANGED <<l1_before, l1_evt>>

NextL1 ==
    \/ ReceiveL1 /\ UNCHANGED <<ladderVars, pipeVars, mergeVars, metricVars, notL1>>
    \/ ApplyL1 /\ UNCHANGED <<ladderVars, pipeVars, mergeVars, metricVars, notL1>>

SpecL1 == InitL1 /\ [][NextL1]_vars

\* The best prices and sizes of an L1 state.
L1Top(st) == <<st.best_bid, st.bid_size, st.best_ask, st.ask_size>>

\* C27 as stated: an event whose price_level is not 0 leaves best_bid,
\* bid_size, best_ask and ask_size as they were and returns changed = false.
C27_OnlyLevelZeroChangesL1 ==
    (l1_changed # None /\ Val(l1_evt).price_level # Some(0)) =>
        /\ L1Top(l1_state) = L1Top(l1_before)
        /\ l1_changed = Some(FALSE)

\* What holds: an event without a level or with a level above 5 does so.
C27_LevelsAboveFiveIgnored ==
    (l1_changed # None /\ L1LevelIgnored(Val(l1_evt))) =>
        /\ L1Top(l1_state) = L1Top(l1_before)
        /\ l1_changed = Some(FALSE)


-----------------------------------------------------------------------------
(* scripts/resume_merge_seg50.py: the merge resumed from the merged_*       *)
(* files of an interrupted run.                                            *)

SUPER_BATCH_SIZE == 5

\* The most merged_* files in the temporary directory.
MaxMergedFiles == 6

ResumeTimes == {1, 2}

\* The merged_* files a run leaves: one or two rows sorted by (ts_ns,
\* security_id); next is the id of the first row.
MergedFileChoices(next) ==
    {<<[ts_ns |-> t, security_id |-> 1, id |-> next]>> : t \in ResumeTimes}
    \cup {<<[ts_ns |-> tu[1], security_id |-> 1, id |-> next],
            [ts_ns |-> tu[2], security_id |-> 1, id |-> next + 1]>> :
             tu \in {p \in ResumeTimes \X ResumeTimes : p[1] <= p[2]}}

\* min(a, b)
Min(a, b) == IF a < b THEN a ELSE b

\* (n + k - 1) // k
CeilDiv(n, k) == (n + k - 1) \div k

\* The super-batch loop (lines 30-61): every SUPER_BATCH_SIZE files in a
\* row concatenated, sorted and written as final_batch_NN.
super_batches(files) ==
    [b \in 1..CeilDiv(Len(files), SUPER_BATCH_SIZE) |->
        sort_values(concat(SubSeq(files, SUPER_BATCH_SIZE * (b - 1) + 1,
                                  Min(SUPER_BATCH_SIZE * b, Len(files)))))]

\* One round of the pairwise merge (lines 81-107): each pair concatenated
\* and written, an odd last file carried forward.
next_files(files) ==
    [p \in 1..CeilDiv(Len(files), 2) |->
        IF 2 * p <= Len(files)
        THEN concat(<<files[2 * p - 1], files[2 * p]>>)
        ELSE files[2 * p - 1]]

InitResume ==
    /\ CoreIdle
    /\ PipelineIdle
    /\ AuxIdleExcept("resume")
    /\ rm_merged = << >>
    /\ current_files = << >>
    /\ rm_phase = "input"
    /\ final_table = None
    /\ rm_status = None

\* The interrupted run left one more merged_* file.
LeaveMergedFile ==
    /\ rm_phase = "input"
    /\ Len(rm_merged) < MaxMergedFiles
    /\ \E f \in MergedFileChoices(Len(concat(rm_merged)) + 1) :
          rm_merged' = Append(rm_merged, f)
    /\ UNCHANGED <<current_files, rm_phase, final_table, rm_status>>

\* main up to the pairwise merge (lines 19-76): no file, return 1; else the
\* super-batches.
SuperBatchMerge ==
    /\ rm_phase = "input"
    /\ IF rm_merged = << >>
       THEN /\ rm_status' = Some(1)
            /\ rm_phase' = "done"
            /\ UNCHANGED current_files
       ELSE /\ current_files' = super_batches(rm_merged)
            /\ rm_phase' = "pairwise"
            /\ UNCHANGED rm_status
    /\ UNCHANGED <<rm_merged, final_table>>

\* One pass of 'while len(current_files) > 1' (lines 79-108).
PairwiseRound ==
    /\ rm_phase = "pairwise"
    /\ Len(current_files) > 1
    /\ current_files' = next_files(current_files)
    /\ UNCHANGED <<rm_merged, rm_phase, final_table, rm_status>>

\* pa.concat_tables of the remaining files and pq.write_table (lines
\* 118-134).  The csv copy and the aggregation that follow do not touch
\* the file.
WriteFinalTable ==
    /\ rm_phase = "pairwise"
    /\ Len(current_files) <= 1
    /\ final_table' = Some(concat(current_files))
    /\ rm_phase' = "written"
    /\ UNCHANGED <<rm_merged, current_files, rm_status>>

NextResume ==
    \/ LeaveMergedFile /\ UNCHANGED <<ladderVars, pipeVars, mergeVars, metricVars, notResume>>
    \/ SuperBatchMerge /\ UNCHANGED <<ladderVars, pipeVars, mergeVars, metricVars, notResume>>
    \/ PairwiseRound /\ UNCHANGED <<ladderVars, pipeVars, mergeVars, metricVars, notResume>>
    \/ WriteFinalTable /\ UNCHANGED <<ladderVars, pipeVars, mergeVars, metricVars, notResume>>

SpecResume == InitResume /\ [][NextResume]_vars

\* C28 as stated: the file written holds exactly the records of the merged
\* files, sorted by (ts_ns, security_id).
C28_ResumeMergeSorted ==
    final_table # None =>
        /\ SameRecords(concat(rm_merged), Val(final_table))
        /\ KeyOrdered(Val(final_table))

\* What holds: the records are those of the merged files, and they are
\* sorted when one super-batch takes all the files.
C28_ResumeMergeKeepsRecords ==
    final_table # None =>
        /\ SameRecords(concat(rm_merged), Val(final_table))
        /\ Len(rm_merged) <= SUPER_BATCH_SIZE => KeyOrdered(Val(final_table))


-----------------------------------------------------------------------------
(* The capacity of a ladder (orderbook_multi.py), on the steps of          *)
(* SpecLadder.                                                             *)

\* C29 as stated: every level key stored on either side is a rank in
\* 0..max_levels-1, so a side holds at most max_levels entries, and level 0,
\* when occupied, is the best level returned.
C29_LevelKeysAreRanks ==
    /\ \A l \in (DOMAIN bids) \cup (DOMAIN asks) : l \in 0..(max_levels - 1)
    /\ Cardinality(DOMAIN bids) <= max_levels
    /\ Cardinality(DOMAIN asks) <= max_levels
    /\ 0 \in DOMAIN bids => get_best_bid(State) = Some(bids[0])
    /\ 0 \in DOMAIN asks => get_best_ask(State) = Some(asks[0])

\* What holds: the keys are ranks in 0..max_levels, one more than the
\* configured depth, and level 0, when occupied, is the best returned.
C29_LevelKeysUpToDepth ==
    /\ \A l \in (DOMAIN bids) \cup (DOMAIN asks) : l \in 0..max_levels
    /\ Cardinality(DOMAIN bids) <= max_levels + 1
    /\ Cardinality(DOMAIN asks) <= max_levels + 1
    /\ 0 \in DOMAIN bids => get_best_bid(State) = Some(bids[0])
    /\ 0 \in DOMAIN asks => get_best_ask(State) = Some(asks[0])

\* ---------------------------------------------------------------------------
\* Segment orchestration: scripts/process_all_segments.py starts one
\* scripts/process_full_segment.py per segment, which runs the step scripts
\* as subprocesses.  A subprocess's exit code and the files it leaves are
\* chosen among the outcomes the step script has.
\* ---------------------------------------------------------------------------

\* How often process_all_segments.py is started.
MaxBatches == 2

\* The values of --max-levels and of the depth check_max_depth.py reports.
Depths == {5, 7}

\* An entry under seg_{seg}: depth 0 for the directory itself, d for l{d}.
File(name, depth) == [name |-> name, depth |-> depth]

\* aggregate_l5.py lines 236-254: the level is read off the snapshot path,
\* .../l{depth}/l{depth}_snapshots_seg{seg}.parquet, by substring tests.
level_of_path(depth) ==
    IF depth = 20 THEN 20
    ELSE IF depth = 10 THEN 10
    ELSE LET first == IF depth < 10 THEN depth ELSE depth \div 10
         IN  IF first \in {6, 5, 4, 3, 2, 1} THEN first ELSE 5

\* is_segment_complete(seg, out_drive).
is_segment_complete(seg) ==
    LET seg_dir == seg_files[seg]
        lx_dirs == {f.depth : f \in {g \in seg_dir : g.name = "lx_dir"}}
    IN  IF File("seg_dir", 0) \notin seg_dir THEN FALSE
        ELSE IF File("metadata.json", 0) \notin seg_dir THEN FALSE
        ELSE IF lx_dirs = {} THEN FALSE
        ELSE \E d \in lx_dirs : File("agg_1s.parquet", d) \in seg_dir

\* The values of --segments.
SegmentLists == {<<1>>, <<2>>, <<1, 2>>, <<2, 1>>}

InitSegment == CoreIdle /\ PipelineIdle /\ AuxIdleExcept("none")

\* process_all_segments.main up to the processing loop: the segments, and
\* with --skip-existing the filter on is_segment_complete (lines 214-231).
ProcessAllSegments ==
    /\ seg_pc = "idle"
    /\ segments = << >>
    /\ batch_runs < MaxBatches
    /\ \E list \in SegmentLists, skip \in BOOLEAN :
          LET Remaining(seg) == ~is_segment_complete(seg)
          IN  /\ skip_existing' = skip
              /\ segments' = IF skip THEN SelectSeq(list, Remaining) ELSE list
    /\ batch_runs' = batch_runs + 1
    /\ UNCHANGED <<seg_files, seg_args, seg_pc, actual_max_depth, steps_run,
                   exit_code, succeeded>>

\* process_one_segment starts process_full_segment.py for the next segment,
\* whose main creates seg_{seg} (lines 87-106).
ProcessOneSegment ==
    /\ seg_pc = "idle"
    /\ segments # << >>
    /\ \E levels \in Depths :
          seg_args' = Some([seg |-> Head(segments), max_levels |-> levels,
                            skip_depth_check |-> FALSE])
    /\ segments' = Tail(segments)
    /\ seg_files' = [seg_files EXCEPT ![Head(segments)] = @ \cup {File("seg_dir", 0)}]
    /\ exit_code' = [exit_code EXCEPT ![Head(segments)] = None]
    /\ seg_pc' = "slice"
    /\ actual_max_depth' = None
    /\ steps_run' = << >>
    /\ UNCHANGED <<skip_existing, succeeded, batch_runs>>

\* main returns code; process_one_segment records it.
Return(code) ==
    /\ exit_code' = [exit_code EXCEPT ![Val(seg_args).seg] = Some(code)]
    /\ succeeded' = IF code = 0 THEN succeeded \cup {Val(seg_args).seg} ELSE succeeded
    /\ seg_args' = None
    /\ seg_pc' = "idle"

\* main goes on with the next step.
GoOn(next) ==
    /\ seg_pc' = next
    /\ UNCHANGED <<seg_args, exit_code, succeeded>>

\* Step 1 (lines 108-129).  slice_full_day.py returns 0 also when it found
\* no DI file for the segment.
SliceFullDay ==
    /\ seg_pc = "slice"
    /\ \E rc \in {0, 1}, wrote \in BOOLEAN :
          LET seg == Val(seg_args).seg
              di_slice == File("DI_fullday.csv", 0)
              after == IF wrote THEN seg_files[seg] \cup {di_slice} ELSE seg_files[seg]
              ok == rc = 0 /\ di_slice \in after
          IN  /\ seg_files' = [seg_files EXCEPT ![seg] = after]
              /\ steps_run' = Append(steps_run, [step |-> "slice", rc |-> rc, ok |-> ok])
              /\ IF rc # 0 THEN Return(1)
                 ELSE IF di_slice \notin after THEN Return(1)
                 ELSE GoOn("mapping")
    /\ UNCHANGED <<segments, skip_existing, actual_max_depth, batch_runs>>

\* Step 2 (lines 131-145).  inspect_schema.py returns 1 or 2 without
\* writing, and writes the mapping before it returns 0.
InferMapping ==
    /\ seg_pc = "mapping"
    /\ \E rc \in {0, 1, 2} :
          LET seg == Val(seg_args).seg
              after == IF rc = 0 THEN seg_files[seg] \cup {File("di_mapping.json", 0)}
                       ELSE seg_files[seg]
          IN  /\ seg_files' = [seg_files EXCEPT ![seg] = after]
              /\ steps_run' = Append(steps_run, [step |-> "mapping", rc |-> rc, ok |-> rc = 0])
              /\ IF rc # 0 THEN Return(1) ELSE GoOn("depth")
    /\ UNCHANGED <<segments, skip_existing, actual_max_depth, batch_runs>>

\* Step 3 (lines 147-175): the depth check is not critical.
DetectDepth ==
    /\ seg_pc = "depth"
    /\ \E rc \in {0, 1}, found \in {None} \cup {Some(d) : d \in Depths} :
          /\ actual_max_depth' =
                IF Val(seg_args).skip_depth_check THEN Some(Val(seg_args).max_levels)
                ELSE IF rc = 0 /\ found # None THEN found
                ELSE Some(Val(seg_args).max_levels)
          /\ steps_run' = Append(steps_run, [step |-> "depth", rc |-> rc, ok |-> TRUE])
    /\ GoOn("snapshots")
    /\ UNCHANGED <<seg_files, segments, skip_existing, batch_runs>>

\* Step 4 (lines 177-197).  parse_and_l5.py creates l{levels} first, returns
\* 0 without a file when no snapshot was taken, and can fail after the
\* parquet file was written.
BuildSnapshots ==
    /\ seg_pc = "snapshots"
    /\ \E rc \in {0, 1}, made \in BOOLEAN, wrote \in BOOLEAN :
          LET seg == Val(seg_args).seg
              depth == Val(actual_max_depth)
              snapshot_parq == File("snapshots.parquet", depth)
              after == seg_files[seg]
                         \cup (IF made THEN {File("lx_dir", depth)} ELSE {})
                         \cup (IF wrote THEN {snapshot_parq} ELSE {})
              ok == rc = 0 /\ snapshot_parq \in after
          IN  /\ wrote => made
              /\ rc = 0 => made
              /\ seg_files' = [seg_files EXCEPT ![seg] = after]
              /\ steps_run' = Append(steps_run, [step |-> "snapshots", rc |-> rc, ok |-> ok])
              /\ IF rc # 0 THEN Return(1)
                 ELSE IF snapshot_parq \notin after THEN Return(1)
                 ELSE GoOn("aggregate")
    /\ UNCHANGED <<segments, skip_existing, actual_max_depth, batch_runs>>

\* Step 5 and the end of main (lines 199-232).  A failed aggregation is a
\* warning; metadata.json is written and main returns 0.  aggregate_l5.py
\* swallows a failed parquet write and returns 0.
Aggregate ==
    /\ seg_pc = "aggregate"
    /\ \E rc \in {0, 1}, made \in BOOLEAN, wrote \in BOOLEAN, saved \in BOOLEAN :
          LET seg == Val(seg_args).seg
              level == level_of_path(Val(actual_max_depth))
              after == seg_files[seg]
                         \cup (IF made THEN {File("lx_dir", level)} ELSE {})
                         \cup (IF wrote THEN {File("agg_1s.parquet", level)} ELSE {})
                         \cup (IF saved THEN {File("metadata.json", 0)} ELSE {})
          IN  /\ wrote => made
              /\ rc = 0 => made
              /\ seg_files' = [seg_files EXCEPT ![seg] = after]
              /\ steps_run' = Append(steps_run, [step |-> "aggregate", rc |-> rc, ok |-> rc = 0])
              /\ IF saved THEN Return(0) ELSE Return(1)
    /\ UNCHANGED <<segments, skip_existing, actual_max_depth, batch_runs>>

NextSegment ==
    \/ ProcessAllSegments /\ UNCHANGED <<ladderVars, pipeVars, mergeVars, metricVars, notSegment>>
    \/ ProcessOneSegment /\ UNCHANGED <<ladderVars, pipeVars, mergeVars, metricVars, notSegment>>
    \/ SliceFullDay /\ UNCHANGED <<ladderVars, pipeVars, mergeVars, metricVars, notSegment>>
    \/ InferMapping /\ UNCHANGED <<ladderVars, pipeVars, mergeVars, metricVars, notSegment>>
    \/ DetectDepth /\ UNCHANGED <<ladderVars, pipeVars, mergeVars, metricVars, notSegment>>
    \/ BuildSnapshots /\ UNCHANGED <<ladderVars, pipeVars, mergeVars, metricVars, notSegment>>
    \/ Aggregate /\ UNCHANGED <<ladderVars, pipeVars, mergeVars, metricVars, notSegment>>

SpecSegment == InitSegment /\ [][NextSegment]_vars

\* The four steps the orchestration is described by, in their order.
StepOrder == <<"slice", "mapping", "snapshots", "aggregate">>

IsNamedStep(r) == r.step # "depth"

NamedSteps == SelectSeq(steps_run, IsNamedStep)

\* The steps ran in order, each after the success of the one before.
StepsInOrder ==
    /\ Len(NamedSteps) <= Len(StepOrder)
    /\ \A i \in 1..Len(NamedSteps) :
          /\ NamedSteps[i].step = StepOrder[i]
          /\ i > 1 => NamedSteps[i - 1].ok

\* C30: the full-segment run executes slice, mapping inference, snapshot
\* building and aggregation in that order, each step after the success of
\* the one before; a segment whose run returned 0 satisfies
\* is_segment_complete; and under --skip-existing no segment whose run has
\* returned 0 is processed again.
C30_SuccessfulSegmentIsComplete ==
    /\ StepsInOrder
    /\ \A s \in SegmentIds : exit_code[s] = Some(0) => is_segment_complete(s)
    /\ (seg_args # None /\ skip_existing) => Val(seg_args).seg \notin succeeded

\* What holds of C30: the order of the steps, and that a segment whose run
\* returned 0 has metadata.json and the snapshot file of its depth; it is
\* complete if the aggregation wrote its parquet file.
C30_SuccessfulSegmentHasSnapshots ==
    /\ StepsInOrder
    /\ \A s \in SegmentIds :
          exit_code[s] = Some(0) =>
             /\ File("metadata.json", 0) \in seg_files[s]
             /\ \E d \in Depths : File("snapshots.parquet", d) \in seg_files[s]
             /\ (\E d \in 1..20 : File("agg_1s.parquet", d) \in seg_files[s])
                   => is_segment_complete(s)

=============================================================================
